---- MODULE Spec2Model ----
(***************************************************************************)
(* Container query polyfill: the layout state engine (src/src/engine.ts,   *)
(* the revision built on createMemoizedValue), the size-feature mapping    *)
(* and the selector rewriting of the stylesheet transform.                 *)
(*                                                                         *)
(* Lengths are CSS pixels.  A feature of the size-feature record that the  *)
(* code leaves `undefined` is the empty set, a present one is {value}.     *)
(* The three results of evaluateContainerCondition (true, false, null) are *)
(* the strings "true", "false", "null".                                    *)
(***************************************************************************)
EXTENDS Integers, Sequences, FiniteSets, TLC

VARIABLES
    computedStyle,      \* the computed style of every element (getComputedStyle)
    classes,            \* the class attribute of every element, as a set
    queryDescriptorMap, \* the descriptor list registered for the style element, or <<>>
    memo,               \* per element: the closure state of createMemoizedValue
    qdMemo,             \* the closure state of the memoized computeQueryDescriptors
    frameCache,         \* the elements whose state function has a frameCache entry
    stateCalls,         \* the elements whose memoized state function ran in this pass
    prevLayoutState,    \* per element: the identity of prevLayoutState, 0 for null
    isObservingSize,    \* per element: isObservingSize
    attrs,              \* per element: the DATA_ATTRIBUTE_CHILD and _SELF values
    inlineProps,        \* per element: the custom unit properties of its inline style
    records,            \* mutation records not yet delivered to the mutationObserver
    resizePending,      \* a delivery to the resizeObserver callback is due
    pc,                 \* "idle", or "pass" inside the resizeObserver callback
    queue,              \* the update() calls the running pass still has to make
    envBudget,          \* changes the environment may still make
    envSincePass,       \* what the environment changed since the latest pass began
    stablePass,         \* the latest pass began with no tracked input changed
    chainStyles,    \* SpecLayout: computed styles read so far, root first
    chainStates,    \* SpecLayout: LayoutState computed for each, root first
    sfInput,        \* SpecSize: the style handed to computeSizeFeatures
    sfOutput,       \* SpecSize: <<>> before the call, <<result>> after it
    selInput,       \* SpecSelector: the prelude, the uid and the platform
    selOutput,      \* SpecSelector: <<>> before the call, <<result>> after it
    CONTAINER_ID,   \* SpecTransform: the module-level uid counter of the transform
    sheetInput,     \* SpecTransform: the stylesheet of the latest call, <<>> before
    sheetOutput,    \* SpecTransform: <<>>, or <<result>> of the latest call
    allocatedUids,  \* SpecTransform: the uids every call so far has allocated
    runs,           \* SpecSheets: the calls of connected(), with their signals
    connected,      \* SpecSheets: the link / style element is in the document
    controller,     \* SpecSheets: this.controller of the element, 0 for null
    styleSheet,     \* SpecSheets: this.styleSheet of the element, 0 for null
    ownerDescriptors, \* SpecSheets: queryDescriptorMap by owner node, 0 for none
    content,        \* SpecSheets: href / innerHTML, 0 as authored or the run
    scheduled,      \* SpecSheets: the callers of scheduleUpdate in the last step
    condInput,      \* SpecCondition: the tokens handed to parseMediaCondition
    condOutput,     \* SpecCondition: <<>> before the call, <<result>> after it
    boxWidth,       \* SpecResize: the width of the box of every node
    due,            \* SpecResize: nodes the ResizeObserver has to report
    entries,        \* SpecResize: the targets of the entries being handled
    sorted,         \* SpecResize: the sorted instances resize() is still due on
    shouldQueueMutations, \* SpecResize: shouldQueueMutations
    pendingMutations,     \* SpecResize: pendingMutations
    pendingResize,  \* SpecResize: pendingResize
    cachedState,    \* SpecResize: per node #cachedState, <<>> for null
    dom,            \* SpecResize: per node the attribute and inline style
    applied,        \* SpecResize: the writes applied since the callback began
    handled,        \* SpecResize: the resize() calls since the callback began
    boxBudget,      \* SpecResize: changes of a box the environment may make
    parentNode,     \* SpecTree: per node <<parentNode>>, <<>> for null
    instance,       \* SpecTree: per node the instance it holds, 0 for none
    created,        \* SpecTree: per node the number of instances created
    marked,         \* SpecTree: per node, it carries attributes of the engine
    treeRecords,    \* SpecTree: mutation records not yet delivered
    transient,      \* SpecTree: removed nodes that are still observed
    treePending,    \* SpecTree: a delivery to the resizeObserver callback is due
    treeQueue,      \* SpecTree: the update() calls the running pass has to make
    treeBudget,     \* SpecTree: changes the environment may still make
    threw,          \* SpecTree: 'Expected node to have parent' was thrown
    dispInput,      \* SpecDisplay: the styles and the parent flags of the call
    dispOutput,     \* SpecDisplay: <<>> before the call, <<result>> after it
    declInput,      \* SpecDeclarations: the declaration list of the call
    declOutput      \* SpecDeclarations: <<>> before the call, <<list>> after it

engineVars == <<computedStyle, classes, queryDescriptorMap, memo, qdMemo, frameCache, stateCalls,
                prevLayoutState,
                isObservingSize, attrs, inlineProps, records, resizePending, pc, queue,
                envBudget, envSincePass, stablePass>>

selVars == <<selInput, selOutput>>

transformVars == <<CONTAINER_ID, sheetInput, sheetOutput, allocatedUids>>

sheetVars == <<runs, connected, controller, styleSheet, ownerDescriptors,
               content, scheduled>>

condVars == <<condInput, condOutput>>

resizeVars == <<boxWidth, due, entries, sorted, shouldQueueMutations,
                pendingMutations, pendingResize, cachedState, dom, applied,
                handled, boxBudget>>

\* the variables of the specifications that follow SpecCondition
treeVars == <<parentNode, instance, created, marked, treeRecords, transient,
              treePending, treeQueue, treeBudget, threw>>

displayVars == <<dispInput, dispOutput>>

declVars == <<declInput, declOutput>>

laterVars == <<resizeVars, treeVars, displayVars, declVars>>

auxVars == <<sheetVars, condVars, laterVars>>

pureVars == <<chainStyles, chainStates, sfInput, sfOutput, selVars, transformVars,
              auxVars>>

vars == <<engineVars, pureVars>>

----------------------------------------------------------------------------
(* Bounds of the model *)

\* element widths and heights are Px, 2*Px, ..., MaxSize*Px
MaxSize == 2
\* depth of the chain of elements below the root element
MaxDepth == 3
\* widths and heights handed to computeSizeFeatures are 1..MaxDim
MaxDim == 4
\* changes of styles, classes and stylesheets the environment makes in Spec
MaxEnvChanges == 2
\* tokens in the prelude handed to transformSelector
MaxTokens == 5

\* unit of the element sizes of the model: cqw = width / 100
Px == 100

----------------------------------------------------------------------------
(* Enumerations *)

\* const enum QueryContainerFlags
FlagNone == 0
FlagCondition == 1
FlagContainer == 2

\* const enum DisplayFlags, as the set of the bits that are on
Enabled == "Enabled"
EligibleForSizeContainment == "EligibleForSizeContainment"

\* ContainerType, as the set of the bits that are on
InlineSizeBit == "InlineSize"
BlockSizeBit == "BlockSize"
ContainerTypeNone == {}

\* WritingAxis
Horizontal == "Horizontal"
Vertical == "Vertical"

VERTICAL_WRITING_MODES ==
    {"vertical-lr", "vertical-rl", "sideways-rl", "sideways-lr", "tb", "tb-lr", "tb-rl"}

\* the computed values of display, each with the words and the separators
\* it is made of; no word holds table or ruby inside a longer word
DisplayWords ==
    [d \in {"none", "contents", "block", "inline", "flex", "grid", "table",
            "ruby"} |-> <<d>>]
    @@ ("inline-block" :> <<"inline", "-", "block">>)
    @@ ("inline-flex" :> <<"inline", "-", "flex">>)
    @@ ("inline-grid" :> <<"inline", "-", "grid">>)
    @@ ("flow-root" :> <<"flow", "-", "root">>)
    @@ ("list-item" :> <<"list", "-", "item">>)
    @@ ("inline-table" :> <<"inline", "-", "table">>)
    @@ ("table-row-group" :> <<"table", "-", "row", "-", "group">>)
    @@ ("table-header-group" :> <<"table", "-", "header", "-", "group">>)
    @@ ("table-footer-group" :> <<"table", "-", "footer", "-", "group">>)
    @@ ("table-row" :> <<"table", "-", "row">>)
    @@ ("table-cell" :> <<"table", "-", "cell">>)
    @@ ("table-column-group" :> <<"table", "-", "column", "-", "group">>)
    @@ ("table-column" :> <<"table", "-", "column">>)
    @@ ("table-caption" :> <<"table", "-", "caption">>)
    @@ ("ruby-base" :> <<"ruby", "-", "base">>)
    @@ ("ruby-text" :> <<"ruby", "-", "text">>)
    @@ ("ruby-base-container" :> <<"ruby", "-", "base", "-", "container">>)
    @@ ("ruby-text-container" :> <<"ruby", "-", "text", "-", "container">>)
    @@ ("block ruby" :> <<"block", " ", "ruby">>)
    @@ ("inline list-item" :> <<"inline", " ", "list", "-", "item">>)

DisplayValues == DOMAIN DisplayWords

\* /(\w*(\s|-))?(table|ruby)(-\w*)?/.test(value): the expression is not
\* anchored and the groups around (table|ruby) are optional, so it matches
\* wherever table or ruby occurs
testTableOrRuby(words) ==
    \E i \in DOMAIN words : words[i] \in {"table", "ruby"}

\* the display values the regular expression TABLE_OR_RUBY_DISPLAY_TYPE matches
TABLE_OR_RUBY_DISPLAY_TYPE ==
    {d \in DisplayValues : testTableOrRuby(DisplayWords[d])}

\* x & flag for the one-bit flags of QueryContainerFlags
BitAnd(x, flag) == IF (x \div flag) % 2 = 1 THEN flag ELSE 0

\* a && b of JavaScript on numbers
LogicalAnd(a, b) == IF a = 0 THEN a ELSE b

----------------------------------------------------------------------------
(* Container query descriptors: three nested @container rules and one that  *)
(* stands alone.  rule.feature is the size feature the condition reads and  *)
(* rule.min its threshold: the condition is (feature >= min).  A selector   *)
(* is the class an element must have to match it.                           *)

NoName == "null"
NoParent == "null"
\* the selector of a descriptor under which no style rule was seen
NoSelector == "null"

Uids == {"c1", "c2", "c3", "c4"}

Descriptor(uid) ==
    CASE uid = "c1" -> [uid |-> "c1", selector |-> "a", parent |-> NoParent,
                        rule |-> [name |-> NoName, feature |-> "width", min |-> 2 * Px]]
      [] uid = "c2" -> [uid |-> "c2", selector |-> "b", parent |-> "c1",
                        rule |-> [name |-> "card", feature |-> "inlineSize", min |-> 1 * Px]]
      [] uid = "c3" -> [uid |-> "c3", selector |-> "a", parent |-> "c2",
                        rule |-> [name |-> NoName, feature |-> "width", min |-> 1 * Px]]
      [] uid = "c4" -> [uid |-> "c4", selector |-> NoSelector, parent |-> NoParent,
                        rule |-> [name |-> NoName, feature |-> "height", min |-> 2 * Px]]

\* the order of the descriptor list: a nested rule may come before its parent
AllQueryDescriptors == <<"c3", "c1", "c4", "c2">>

----------------------------------------------------------------------------
(* Reading the computed style.  A computed style is a record of the values  *)
(* getPropertyValue returns (trimmed) for the properties the engine reads;  *)
(* container-type and container-name hold one keyword or one name, with the *)
(* "cq-" prefix on the keywords the global style element sets.  Lengths     *)
(* are already numbers of pixels.  widthInset and heightInset are the sums  *)
(* of the padding and border widths of WIDTH_/HEIGHT_BORDER_BOX_PROPERTIES. *)

\* computeContainerType without the case of the inline-size keyword
computeContainerTypeSizeOnly(containerType) ==
    IF containerType = "size" THEN {InlineSizeBit, BlockSizeBit} ELSE ContainerTypeNone

computeContainerType(containerType) ==
    IF containerType = "" THEN ContainerTypeNone
    ELSE IF containerType = "cq-normal" THEN ContainerTypeNone
    ELSE IF containerType = "size" THEN {InlineSizeBit, BlockSizeBit}
    ELSE IF containerType = "inline-size" THEN {InlineSizeBit}
    ELSE ContainerTypeNone

computeDisplayFlags(displayType) ==
    IF displayType # "none"
    THEN {Enabled} \cup
         (IF /\ displayType # "contents"
             /\ displayType # "inline"
             /\ displayType \notin TABLE_OR_RUBY_DISPLAY_TYPE
          THEN {EligibleForSizeContainment}
          ELSE {})
    ELSE {}

computeContainerNames(containerNames) ==
    IF containerNames = "cq-none" THEN {}
    ELSE IF containerNames = "" THEN {}
    ELSE {containerNames}

computeWritingAxis(writingMode) ==
    IF writingMode \in VERTICAL_WRITING_MODES THEN Vertical ELSE Horizontal

computeSizeData(styles) ==
    LET isBorderBox == styles.boxSizing = "border-box"
        widthOffset == IF isBorderBox THEN styles.widthInset ELSE 0
        heightOffset == IF isBorderBox THEN styles.heightInset ELSE 0
    IN  [fontSize |-> styles.fontSize,
         width |-> styles.width - widthOffset,
         height |-> styles.height - heightOffset]

computeLayoutData(styles) ==
    [containerType |-> computeContainerType(styles.containerType),
     containerNames |-> computeContainerNames(styles.containerName),
     writingAxis |-> computeWritingAxis(styles.writingMode),
     displayFlags |-> computeDisplayFlags(styles.display)]

\* computeSizeFeatures clearing blockSize alone, as if the Axis objects were
\* copied instead of shared
computeSizeFeaturesCopiedAxes(layoutData, sizeData) ==
    LET vertical == layoutData.writingAxis = Vertical
        clearBlock == BlockSizeBit \notin layoutData.containerType
    IN  [width |-> {sizeData.width},
         height |-> {sizeData.height},
         inlineSize |-> IF vertical THEN {sizeData.height} ELSE {sizeData.width},
         blockSize |-> IF clearBlock THEN {}
                       ELSE IF vertical THEN {sizeData.width} ELSE {sizeData.height}]

\* The two Axis objects are shared: inlineAxis and blockAxis are references to
\* horizontalAxis and verticalAxis, so clearing blockAxis.value clears the
\* value of the physical axis it refers to.
computeSizeFeatures(layoutData, sizeData) ==
    LET blockAxisIs == IF layoutData.writingAxis = Vertical
                       THEN "horizontalAxis" ELSE "verticalAxis"
        clearBlock == BlockSizeBit \notin layoutData.containerType
        horizontalAxis == IF clearBlock /\ blockAxisIs = "horizontalAxis"
                          THEN {} ELSE {sizeData.width}
        verticalAxis == IF clearBlock /\ blockAxisIs = "verticalAxis"
                        THEN {} ELSE {sizeData.height}
        inlineAxis == IF blockAxisIs = "verticalAxis" THEN horizontalAxis ELSE verticalAxis
        blockAxis == IF blockAxisIs = "verticalAxis" THEN verticalAxis ELSE horizontalAxis
    IN  [width |-> horizontalAxis,
         height |-> verticalAxis,
         inlineSize |-> inlineAxis,
         blockSize |-> blockAxis]

\* evaluate.ts: null when the feature the condition reads is not among the
\* size features of the container, else the truth of (feature >= min)
evaluateContainerCondition(rule, queryContext) ==
    LET feature == queryContext.sizeFeatures[rule.feature]
    IN  IF feature = {} THEN "null"
        ELSE IF \E v \in feature : v >= rule.min THEN "true" ELSE "false"

----------------------------------------------------------------------------
(* computeLayoutState *)

\* conditions.get(uid) ?? 0
GetFlags(conditions, uid) ==
    IF uid \in DOMAIN conditions THEN conditions[uid] ELSE FlagNone

\* computeQueryCondition taking a null result for false instead of the
\* condition the parent element recorded
computeQueryConditionNoInherit(env, query) ==
    LET name == query.rule.name
        result == IF name = NoName \/ name \in env.containerNames
                  THEN evaluateContainerCondition(query.rule, env.queryContext)
                  ELSE "null"
    IN  result = "true"

\* computeQueryCondition evaluating the condition whatever the names of the
\* container are
computeQueryConditionAnyName(env, query) ==
    LET result == evaluateContainerCondition(query.rule, env.queryContext)
    IN  IF result = "null"
        THEN LET condition == GetFlags(env.parentConditions, query.uid)
             IN  LogicalAnd(condition, FlagCondition) = FlagCondition
        ELSE result = "true"

\* env: the names and the query context of the element and the conditions of
\* its parent, the variables computeQueryCondition closes over
computeQueryCondition(env, query) ==
    LET name == query.rule.name
        result == IF name = NoName \/ name \in env.containerNames
                  THEN evaluateContainerCondition(query.rule, env.queryContext)
                  ELSE "null"
    IN  IF result = "null"
        THEN LET condition == GetFlags(env.parentConditions, query.uid)
             IN  LogicalAnd(condition, FlagCondition) = FlagCondition
        ELSE result = "true"

\* computeContainer without the test of the parent descriptor
computeContainerIgnoringParent(condition, query, parentFlags) ==
    condition = TRUE

\* computeContainer without the test of the condition
computeContainerWhateverCondition(condition, query, parentFlags) ==
    \/ query.parent = NoParent
    \/ BitAnd(parentFlags, FlagCondition) = FlagCondition

\* the `container` of computeQueryState: parentFlags is what the recursive
\* call for query.parent returned
computeContainer(condition, query, parentFlags) ==
    /\ condition = TRUE
    /\ \/ query.parent = NoParent
       \/ BitAnd(parentFlags, FlagCondition) = FlagCondition

\* the conditions map after computeQueryState(conditions, query); the value
\* the code returns is the entry of query.uid in it
RECURSIVE computeQueryState(_, _, _)
computeQueryState(env, conditions, uid) ==
    IF uid \in DOMAIN conditions THEN conditions
    ELSE LET query == Descriptor(uid)
             condition == computeQueryCondition(env, query)
             \* && and || evaluate the recursive call only when they reach it
             callsParent == condition /\ query.parent # NoParent
             afterParent == IF callsParent
                            THEN computeQueryState(env, conditions, query.parent)
                            ELSE conditions
             parentFlags == IF callsParent THEN afterParent[query.parent] ELSE FlagNone
             container == computeContainer(condition, query, parentFlags)
             state == (IF condition THEN FlagCondition ELSE 0)
                      + (IF container THEN FlagContainer ELSE 0)
         IN  [u \in DOMAIN afterParent \cup {uid} |->
                 IF u = uid THEN state ELSE afterParent[u]]

\* for (const query of queryDescriptors) computeQueryState(conditions, query)
RECURSIVE computeAllQueryStates(_, _, _)
computeAllQueryStates(env, conditions, queryDescriptors) ==
    IF queryDescriptors = <<>> THEN conditions
    ELSE computeAllQueryStates(
             env,
             computeQueryState(env, conditions, Head(queryDescriptors)),
             Tail(queryDescriptors))

\* the uids whose condition computeQueryState(conditions, query) evaluates
\* (its calls of computeQueryCondition), in the order of the calls
RECURSIVE evaluatedBy(_, _, _)
evaluatedBy(env, conditions, uid) ==
    IF uid \in DOMAIN conditions THEN <<>>
    ELSE LET query == Descriptor(uid)
             condition == computeQueryCondition(env, query)
             callsParent == condition /\ query.parent # NoParent
         IN  <<uid>> \o (IF callsParent
                         THEN evaluatedBy(env, conditions, query.parent)
                         ELSE <<>>)

\* the same for the loop over the descriptor list
RECURSIVE evaluatedByAll(_, _, _)
evaluatedByAll(env, conditions, queryDescriptors) ==
    IF queryDescriptors = <<>> THEN <<>>
    ELSE evaluatedBy(env, conditions, Head(queryDescriptors))
             \o evaluatedByAll(
                    env,
                    computeQueryState(env, conditions, Head(queryDescriptors)),
                    Tail(queryDescriptors))

EmptyConditions == [u \in {} |-> FlagNone]

\* inheritDisplayFlags looking at the display of the element alone
inheritDisplayFlagsOwnOnly(parentDisplayFlags, ownDisplayFlags) ==
    ownDisplayFlags

\* a disabled parent disables the element whatever its own display is
inheritDisplayFlags(parentDisplayFlags, ownDisplayFlags) ==
    IF Enabled \notin parentDisplayFlags THEN {} ELSE ownDisplayFlags

isValidContainerOf(containerType, displayFlags) ==
    containerType # ContainerTypeNone /\ EligibleForSizeContainment \in displayFlags

computeLayoutState(styles, parentState) ==
    LET parentContext == parentState.context
        parentConditions == parentState.conditions
        queryDescriptors == parentState.queryDescriptors
        layoutData == computeLayoutData(styles)
        displayFlags == inheritDisplayFlags(parentState.displayFlags,
                                            layoutData.displayFlags)
        containerType == layoutData.containerType
        isContainer == containerType # ContainerTypeNone
        isValidContainer == isValidContainerOf(containerType, displayFlags)
        sizeData == computeSizeData(styles)
        sizeFeatures == computeSizeFeatures(layoutData, sizeData)
        context0 == [parentContext EXCEPT !.writingAxis = layoutData.writingAxis]
        context1 == [context0 EXCEPT !.fontSize = sizeData.fontSize]
        env == [containerNames |-> layoutData.containerNames,
                queryContext |-> [sizeFeatures |-> sizeFeatures, treeContext |-> context1],
                parentConditions |-> parentConditions]
        context2 == [context1 EXCEPT
                        !.cqw = IF sizeFeatures.width # {}
                                THEN (CHOOSE v \in sizeFeatures.width : TRUE) \div Px
                                ELSE parentContext.cqw,
                        !.cqh = IF sizeFeatures.height # {}
                                THEN (CHOOSE v \in sizeFeatures.height : TRUE) \div Px
                                ELSE parentContext.cqh]
    IN  [conditions |->
             IF ~isContainer THEN parentConditions
             ELSE IF ~isValidContainer THEN EmptyConditions
             ELSE computeAllQueryStates(env, EmptyConditions, queryDescriptors),
         context |-> IF isContainer /\ isValidContainer THEN context2 ELSE context0,
         displayFlags |-> displayFlags,
         isQueryContainer |-> isContainer,
         queryDescriptors |-> queryDescriptors]

\* the state of the root element: no conditions, never a query container;
\* a cqw or cqh of 0 stands for the null of fallbackContainerUnits
computeRootState(styles, queryDescriptors) ==
    LET layoutData == computeLayoutData(styles)
        sizeData == computeSizeData(styles)
    IN  [conditions |-> EmptyConditions,
         context |-> [cqw |-> 0, cqh |-> 0,
                      fontSize |-> sizeData.fontSize,
                      rootFontSize |-> sizeData.fontSize,
                      writingAxis |-> layoutData.writingAxis],
         displayFlags |-> layoutData.displayFlags,
         isQueryContainer |-> FALSE,
         queryDescriptors |-> queryDescriptors]

----------------------------------------------------------------------------
(* The computed styles of the model *)

DefaultStyle ==
    [containerType |-> "cq-normal", containerName |-> "cq-none",
     writingMode |-> "horizontal-tb", display |-> "block",
     boxSizing |-> "content-box", widthInset |-> 0, heightInset |-> 0,
     fontSize |-> 16, width |-> Px, height |-> Px]

\* Boxes are square.  A style whose container-type is normal, or whose display
\* is not block, stands for every style that differs from it only in the name
\* and the size, which computeLayoutState does not use for such an element.
ElementStyles ==
    {s \in {[DefaultStyle EXCEPT !.containerType = t, !.containerName = n,
                                 !.display = d, !.width = k * Px, !.height = k * Px] :
                t \in {"cq-normal", "inline-size", "size"},
                n \in {"cq-none", "card"},
                d \in {"block", "none", "contents"},
                k \in 1..MaxSize} :
        (s.containerType = "cq-normal" \/ s.display # "block")
            => (s.containerName = "cq-none" /\ s.width = Px)}

RootStyles ==
    {[DefaultStyle EXCEPT !.display = d] : d \in {"block", "none", "contents"}}

SizeFeatureStyles ==
    {[DefaultStyle EXCEPT !.containerType = t, !.writingMode = m,
                          !.width = w, !.height = h] :
        t \in {"cq-normal", "inline-size", "size"},
        m \in {"horizontal-tb", "vertical-rl", "sideways-lr"},
        w \in 1..MaxDim, h \in 1..MaxDim}

\* the variables of SpecSelector in the other specifications
SelectorUnused == selInput = <<>> /\ selOutput = <<>>

\* the variables of SpecSheets in the other specifications
SheetsUnused ==
    /\ runs = <<>> /\ connected = <<>> /\ controller = <<>>
    /\ styleSheet = <<>> /\ ownerDescriptors = <<>> /\ content = <<>>
    /\ scheduled = <<>>

\* the variables of SpecCondition in the other specifications
ConditionUnused == condInput = <<>> /\ condOutput = <<>>

\* the variables of SpecTransform in the other specifications
TransformUnused ==
    /\ CONTAINER_ID = 0 /\ sheetInput = <<>> /\ sheetOutput = <<>>
    /\ allocatedUids = <<>>

\* the variables of SpecResize in the other specifications
ResizeUnused ==
    /\ boxWidth = <<>> /\ due = {} /\ entries = <<>> /\ sorted = <<>>
    /\ shouldQueueMutations = FALSE /\ pendingMutations = <<>>
    /\ pendingResize = {} /\ cachedState = <<>> /\ dom = <<>>
    /\ applied = <<>> /\ handled = <<>> /\ boxBudget = 0

\* the variables of SpecTree in the other specifications
TreeUnused ==
    /\ parentNode = <<>> /\ instance = <<>> /\ created = <<>> /\ marked = <<>>
    /\ treeRecords = <<>> /\ transient = {} /\ treePending = FALSE
    /\ treeQueue = <<>> /\ treeBudget = 0 /\ threw = FALSE

\* the variables of SpecDisplay in the other specifications
DisplayUnused == dispInput = <<>> /\ dispOutput = <<>>

\* the variables of SpecDeclarations in the other specifications
DeclarationsUnused == declInput = <<>> /\ declOutput = <<>>

\* the variables of the specifications that follow SpecCondition
OthersUnused ==
    /\ ResizeUnused
    /\ TreeUnused
    /\ DisplayUnused
    /\ DeclarationsUnused

\* the engine variables in the specifications that do not run the engine
EngineUnused ==
    /\ computedStyle = <<>> /\ classes = <<>> /\ queryDescriptorMap = <<>>
    /\ memo = <<>> /\ qdMemo = <<>> /\ frameCache = {} /\ prevLayoutState = <<>>
    /\ stateCalls = <<>>
    /\ isObservingSize = <<>> /\ attrs = <<>> /\ inlineProps = <<>>
    /\ records = <<>> /\ resizePending = FALSE /\ pc = "idle" /\ queue = <<>>
    /\ envBudget = 0 /\ envSincePass = "none"
    /\ stablePass = FALSE

----------------------------------------------------------------------------
(* SpecLayout: the layout states along one chain of elements, the root      *)
(* element first, each computed from the state of its parent.               *)

InitLayout ==
    /\ EngineUnused
    /\ OthersUnused
    /\ SelectorUnused
    /\ TransformUnused
    /\ SheetsUnused
    /\ ConditionUnused
    /\ chainStyles = <<>>
    /\ chainStates = <<>>
    /\ sfInput = DefaultStyle
    /\ sfOutput = <<>>

ComputeRoot ==
    /\ chainStates = <<>>
    /\ \E styles \in RootStyles :
        /\ chainStyles' = <<styles>>
        /\ chainStates' = <<computeRootState(styles, AllQueryDescriptors)>>
    /\ UNCHANGED <<sfInput, sfOutput, selVars, transformVars, engineVars, auxVars>>

ComputeChild ==
    /\ Len(chainStates) \in 1..MaxDepth
    /\ \E styles \in ElementStyles :
        /\ chainStyles' = Append(chainStyles, styles)
        /\ chainStates' = Append(chainStates,
               computeLayoutState(styles, chainStates[Len(chainStates)]))
    /\ UNCHANGED <<sfInput, sfOutput, selVars, transformVars, engineVars, auxVars>>

NextLayout == ComputeRoot \/ ComputeChild

SpecLayout == InitLayout /\ [][NextLayout]_vars

----------------------------------------------------------------------------
(* SpecSize: computeSizeFeatures on the layout and size data of one style   *)

InitSize ==
    /\ EngineUnused
    /\ OthersUnused
    /\ SelectorUnused
    /\ TransformUnused
    /\ SheetsUnused
    /\ ConditionUnused
    /\ chainStyles = <<>>
    /\ chainStates = <<>>
    /\ sfInput \in SizeFeatureStyles
    /\ sfOutput = <<>>

ApplySizeFeatures ==
    /\ sfOutput = <<>>
    /\ sfOutput' = <<computeSizeFeatures(computeLayoutData(sfInput),
                                         computeSizeData(sfInput))>>
    /\ UNCHANGED <<chainStyles, chainStates, sfInput, selVars, transformVars, engineVars, auxVars>>

NextSize == ApplySizeFeatures

SpecSize == InitSize /\ [][NextSize]_vars

----------------------------------------------------------------------------
(* SpecSelector: transformSelector on the prelude of one style rule.  A     *)
(* node is [type, value, uid]; uid is the container uid in the two nodes    *)
(* the transform makes, and "" elsewhere.                                   *)

Node(type, value, uid) == [type |-> type, value |-> value, uid |-> uid]

EOFToken == Node("EOFToken", "", "")
ColonToken == Node("ColonToken", "", "")
CommaToken == Node("CommaToken", "", "")
WhitespaceToken == Node("WhitespaceToken", "", "")
ident(value) == Node("IdentToken", value, "")
delim(value) == Node("DelimToken", value, "")

\* the simple block [data-cq~="uid"]
AttributeBlock(containerUID) == Node("BlockNode", "[data-cq~=]", containerUID)

\* func('where', [the block])
WhereFunction(containerUID) == Node("FunctionNode", "where", containerUID)

\* the nodes of ':not(.container-query-polyfill)'
NO_WHERE_SELECTOR_TOKENS ==
    <<ColonToken, Node("FunctionNode", "not(.container-query-polyfill)", "")>>

\* value.toLowerCase() on the identifiers of the model
toLowerCase(value) == IF value = "Before" THEN "before" ELSE value

\* the index of a parser before anything is consumed
ParserStart == 0 - 1

\* parser.at(offset): the node at index + offset, the EOF token beyond the end
at(nodes, index, offset) ==
    IF index + offset >= Len(nodes) THEN EOFToken ELSE nodes[index + offset + 1]

\* nodes.slice(from, to)
slice(nodes, from, to) == SubSeq(nodes, from + 1, to)

isEndOfSelector(n1) == n1.type = "EOFToken" \/ n1.type = "CommaToken"

\* isPseudoElementStart that knows the double colon only
isPseudoElementStartDoubleColon(n1, n2) ==
    \/ isEndOfSelector(n1)
    \/ n1.type = "ColonToken" /\ n2.type = "ColonToken"

isPseudoElementStart(n1, n2) ==
    \/ isEndOfSelector(n1)
    \/ /\ n1.type = "ColonToken"
       /\ \/ n2.type = "ColonToken"
          \/ /\ n2.type = "IdentToken"
             /\ toLowerCase(n2.value)
                    \in {"before", "after", "first-line", "first-letter"}

RECURSIVE trimTrailingWhitespaceFrom(_, _)
\* the loop of trimTrailingWhitespace, i counting down
trimTrailingWhitespaceFrom(nodes, i) ==
    IF i < 0 THEN nodes
    ELSE IF nodes[i + 1].type # "WhitespaceToken" THEN slice(nodes, 0, i + 1)
    ELSE trimTrailingWhitespaceFrom(nodes, i - 1)

trimTrailingWhitespace(nodes) == trimTrailingWhitespaceFrom(nodes, Len(nodes) - 1)

RECURSIVE consumeNonPseudoPart(_, _)
\* while (!isPseudoElementStart(parser.at(1), parser.at(2))) parser.consume(1)
consumeNonPseudoPart(nodes, index) ==
    IF isPseudoElementStart(at(nodes, index, 1), at(nodes, index, 2))
    THEN index
    ELSE consumeNonPseudoPart(nodes, index + 1)

RECURSIVE consumePseudoPart(_, _)
\* while (!isEndOfSelector(parser.at(1))) parser.consume(1)
consumePseudoPart(nodes, index) ==
    IF isEndOfSelector(at(nodes, index, 1))
    THEN index
    ELSE consumePseudoPart(nodes, index + 1)

\* actual.endsWith(NO_WHERE_SELECTOR), on nodes a tokenizer can produce
endsWithNoWhere(nodes) ==
    /\ Len(nodes) >= Len(NO_WHERE_SELECTOR_TOKENS)
    /\ SubSeq(nodes, Len(nodes) - Len(NO_WHERE_SELECTOR_TOKENS) + 1, Len(nodes))
           = NO_WHERE_SELECTOR_TOKENS

Max(a, b) == IF a >= b THEN a ELSE b

RECURSIVE transformSelectorLoop(_, _, _)
\* the while (true) of transformSelector: input is [nodes, containerUID,
\* supportsWhere, isWptBuild], out the arrays built so far
transformSelectorLoop(input, index, out) ==
    IF at(input.nodes, index, 1).type = "EOFToken"
    THEN out
    ELSE
      LET nodes == input.nodes
          selectorStartIndex == Max(0, index)
          index1 == consumeNonPseudoPart(nodes, index)
          pseudoStartIndex == index1 + 1
          rawTargetSelector == slice(nodes, selectorStartIndex, pseudoStartIndex)
          trimmed == IF Len(rawTargetSelector) > 0
                     THEN trimTrailingWhitespace(rawTargetSelector)
                     ELSE <<delim("*")>>
          index2 == consumePseudoPart(nodes, index1)
          targetSelector == IF input.isWptBuild /\ ~input.supportsWhere
                            THEN trimmed \o NO_WHERE_SELECTOR_TOKENS
                            ELSE trimmed
          isInvalid == ~input.supportsWhere /\ ~endsWithNoWhere(targetSelector)
          targetSelectorForStyle ==
              IF ~input.supportsWhere /\ endsWithNoWhere(targetSelector)
              THEN SubSeq(targetSelector, 1,
                          Len(targetSelector) - Len(NO_WHERE_SELECTOR_TOKENS))
              ELSE targetSelector
          styleSelectorSuffix ==
              IF input.supportsWhere
              THEN <<delim(":"), WhereFunction(input.containerUID)>>
              ELSE <<AttributeBlock(input.containerUID)>>
      IN  transformSelectorLoop(
              input,
              index2 + 1,
              [elementSelector |-> out.elementSelector \o targetSelector,
               styleSelector |->
                   out.styleSelector \o targetSelectorForStyle
                       \o styleSelectorSuffix
                       \o slice(nodes, pseudoStartIndex, Max(0, index2 + 1)),
               invalidSelectors |->
                   IF isInvalid
                   THEN Append(out.invalidSelectors, targetSelector)
                   ELSE out.invalidSelectors])

transformSelector(input) ==
    transformSelectorLoop(
        input, ParserStart,
        [elementSelector |-> <<>>, styleSelector |-> <<>>, invalidSelectors |-> <<>>])

\* the nodes a prelude is made of
PreludeNodes ==
    {ident("a"), ident("Before"), ColonToken, CommaToken, WhitespaceToken,
     NO_WHERE_SELECTOR_TOKENS[2]}

\* the preludes a tokenizer can produce: no identifier follows an identifier
\* and no whitespace follows whitespace
Preludes ==
    {nodes \in UNION {[1..n -> PreludeNodes] : n \in 0..MaxTokens} :
        \A i \in 1..(Len(nodes) - 1) :
            /\ ~(nodes[i].type = "IdentToken" /\ nodes[i + 1].type = "IdentToken")
            /\ ~(nodes[i].type = "WhitespaceToken"
                    /\ nodes[i + 1].type = "WhitespaceToken")}

\* :where() supported; not supported; not supported in the WPT build
Platforms ==
    {[supportsWhere |-> TRUE, isWptBuild |-> FALSE],
     [supportsWhere |-> FALSE, isWptBuild |-> FALSE],
     [supportsWhere |-> FALSE, isWptBuild |-> TRUE]}

InitSelector ==
    /\ EngineUnused
    /\ OthersUnused
    /\ TransformUnused
    /\ SheetsUnused
    /\ ConditionUnused
    /\ chainStyles = <<>> /\ chainStates = <<>>
    /\ sfInput = DefaultStyle /\ sfOutput = <<>>
    /\ \E nodes \in Preludes, platform \in Platforms :
           selInput = [nodes |-> nodes, containerUID |-> "c1",
                       supportsWhere |-> platform.supportsWhere,
                       isWptBuild |-> platform.isWptBuild]
    /\ selOutput = <<>>

ApplyTransformSelector ==
    /\ selOutput = <<>>
    /\ selOutput' = <<transformSelector(selInput)>>
    /\ UNCHANGED <<selInput, chainStyles, chainStates, sfInput, sfOutput,
                   transformVars, engineVars, auxVars>>

NextSelector == ApplyTransformSelector

SpecSelector == InitSelector /\ [][NextSelector]_vars

----------------------------------------------------------------------------
(* Spec: the engine.  The document is the root element and the elements of  *)
(* ParentOf below it.  A pass is one run of the resizeObserver callback; it *)
(* is split at the recursive update() calls, which nothing can interleave.  *)
(* The identity of a state object is a number, equal numbers for the same   *)
(* object, and 0 where the code holds null.                                 *)

Root == 0

\* ParentOf[e] is the parentNode of element e; elements are in document order
ParentOf == <<0, 1>>

Elements == 0..Len(ParentOf)

\* node.childNodes, in document order
Children(node) ==
    SelectSeq([i \in 1..Len(ParentOf) |-> i], LAMBDA c : ParentOf[c] = node)

\* node.matches(selector), every selector being a class selector
matches(node, selector) == selector \in classes[node]

NoDeps == [p \in {} |-> 0]

\* the closure of createMemoizedValue before its first call
NoMemo == [id |-> 0, value |-> <<>>, deps |-> NoDeps, parentId |-> 0, qdId |-> 0]

\* the properties computeLayoutData reads
LayoutProps == {"containerType", "containerName", "writingMode", "display"}

\* the properties computeSizeData reads
SizeProps(styles) ==
    {"boxSizing", "fontSize", "width", "height"}
        \cup (IF styles.boxSizing = "border-box"
              THEN {"widthInset", "heightInset"} ELSE {})

\* the style dependencies one computation of a layout state records
StyleDeps(styles, readsSize) ==
    [p \in LayoutProps \cup (IF readsSize THEN SizeProps(styles) ELSE {}) |-> styles[p]]

\* dependency[1]() !== dependency[0] with every dependency re-read
dependencyChangedAlways(recorded, current) == TRUE

\* dependency[1]() !== dependency[0]
dependencyChanged(recorded, current) == recorded # current

\* the loop over the dependencies looking at the layout properties alone
styleDepsDirtyLayoutOnly(deps, styles) ==
    \E p \in DOMAIN deps \cap LayoutProps : dependencyChanged(deps[p], styles[p])

styleDepsDirty(deps, styles) ==
    \E p \in DOMAIN deps : dependencyChanged(deps[p], styles[p])

\* computeQueryDescriptors(): the array is built anew when the registration
\* it read has changed, and is the same object otherwise
computeQueryDescriptors(qd) ==
    IF qd.id = 0 \/ dependencyChanged(qd.dep, queryDescriptorMap)
    THEN [id |-> IF qd.id = 1 THEN 2 ELSE 1,
          dep |-> queryDescriptorMap,
          value |-> queryDescriptorMap]
    ELSE qd

\* an identity no holder of a state of the node has: the memo of the node,
\* its prevLayoutState, and the dependency its children recorded
FreshId(node, m) ==
    LET used == {m.memo[node].id, prevLayoutState[node]}
                    \cup {m.memo[c].parentId : c \in {d \in 1..Len(ParentOf) : ParentOf[d] = node}}
    IN  CHOOSE n \in 1..(Len(ParentOf) + 3) :
            /\ n \notin used
            /\ \A k \in 1..(n - 1) : k \in used


RECURSIVE stateCall(_, _)
RECURSIVE memoCall(_, _)

\* the memoized state function of the root element; m is what a call may
\* change: [memo, frameCache, qd, calls]
rootMemoCall(m) ==
    LET mm == m.memo[Root]
        styles == computedStyle[Root]
        hasPrevious == mm.id # 0
        stylesDirty == hasPrevious /\ styleDepsDirty(mm.deps, styles)
        qd1 == IF hasPrevious /\ ~stylesDirty
               THEN computeQueryDescriptors(m.qd) ELSE m.qd
        dirty == stylesDirty
                    \/ (hasPrevious /\ dependencyChanged(mm.qdId, qd1.id))
        qd2 == computeQueryDescriptors(qd1)
    IN  IF ~hasPrevious \/ dirty
        THEN [m EXCEPT !.qd = qd2,
                       !.memo[Root] =
                           [id |-> FreshId(Root, m),
                            value |-> <<computeRootState(styles, qd2.value)>>,
                            deps |-> StyleDeps(styles, TRUE),
                            parentId |-> 0,
                            qdId |-> qd2.id]]
        ELSE [m EXCEPT !.qd = qd1]

\* the memoized state function of an element below the root: its first
\* dependency is the state of the parent, read through parentState()
memoCall(node, m) ==
    LET mm == m.memo[node]
        styles == computedStyle[node]
        parent == ParentOf[node]
        hasPrevious == mm.id # 0
        m1 == IF hasPrevious THEN stateCall(parent, m) ELSE m
        dirty == /\ hasPrevious
                 /\ \/ dependencyChanged(mm.parentId, m1.memo[parent].id)
                    \/ styleDepsDirty(mm.deps, styles)
        m2 == stateCall(parent, m1)
        parentState == m2.memo[parent].value[1]
        readsSize == isValidContainerOf(
                         computeContainerType(styles.containerType),
                         inheritDisplayFlags(parentState.displayFlags,
                                             computeDisplayFlags(styles.display)))
    IN  IF ~hasPrevious \/ dirty
        THEN [m2 EXCEPT !.memo[node] =
                           [id |-> FreshId(node, m2),
                            value |-> <<computeLayoutState(styles, parentState)>>,
                            deps |-> StyleDeps(styles, readsSize),
                            parentId |-> m2.memo[parent].id,
                            qdId |-> 0]]
        ELSE m1

\* state() running the memoized function whether or not the frameCache
\* has an entry for the node
stateCallUncached(node, m) ==
    LET m1 == IF node = Root THEN rootMemoCall(m) ELSE memoCall(node, m)
    IN  [m1 EXCEPT !.frameCache = @ \cup {node}, !.calls = Append(@, node)]

\* state(): the function createFrameCached returns for the node; calls is
\* the list of the nodes whose memoized function (compute) has run
stateCall(node, m) ==
    IF node \in m.frameCache
    THEN m
    ELSE LET m1 == IF node = Root THEN rootMemoCall(m) ELSE memoCall(node, m)
         IN  [m1 EXCEPT !.frameCache = @ \cup {node}, !.calls = Append(@, node)]

\* the attribute value updateAttributes builds for the node from a state:
\* the uids, in descriptor order, <<>> when the attribute is removed
updateAttributes(node, state) ==
    SelectSeq(state.queryDescriptors,
              LAMBDA uid :
                  /\ Descriptor(uid).selector # NoSelector
                  /\ uid \in DOMAIN state.conditions
                  /\ BitAnd(state.conditions[uid], FlagContainer) = FlagContainer
                  /\ matches(node, Descriptor(uid).selector))

NoInlineProps == [cqi |-> "", cqb |-> "", cqw |-> 0, cqh |-> 0]

\* the custom unit properties update() sets on the inline style; "" and 0
\* stand for a property that is removed
customUnitProperties(node, currentState, currentParentState) ==
    LET context == currentState.context
        writingAxis == context.writingAxis
        setsAxes == \/ node = Root
                    \/ writingAxis # currentParentState.context.writingAxis
                    \/ currentState.isQueryContainer
        setsSizes == node = Root \/ currentState.isQueryContainer
    IN  [cqi |-> IF ~setsAxes THEN ""
                 ELSE IF writingAxis = Horizontal THEN "cqw" ELSE "cqh",
         cqb |-> IF ~setsAxes THEN ""
                 ELSE IF writingAxis = Vertical THEN "cqw" ELSE "cqh",
         cqw |-> IF setsSizes THEN context.cqw ELSE 0,
         cqh |-> IF setsSizes THEN context.cqh ELSE 0]

\* the mutation record setAttribute or removeAttribute queues: setAttribute
\* always queues one, removeAttribute only when the attribute was there
attributeRecord(node, attribute, oldValue, newValue) ==
    IF newValue = <<>> /\ oldValue = <<>>
    THEN <<>>
    ELSE <<[target |-> node, attributeName |-> attribute, oldValue |-> oldValue]>>

\* the mutation record a change of the inline style queues
styleRecord(node, oldProps, newProps) ==
    IF newProps = oldProps
    THEN <<>>
    ELSE <<[target |-> node, attributeName |-> "style", oldValue |-> oldProps]>>

\* entry.target.getAttribute(entry.attributeName)
getAttribute(entry) ==
    CASE entry.attributeName = "child" -> attrs[entry.target].child
      [] entry.attributeName = "self" -> attrs[entry.target].self
      [] entry.attributeName = "style" -> inlineProps[entry.target]
      [] entry.attributeName = "class" -> classes[entry.target]


PureUnused ==
    /\ OthersUnused
    /\ chainStyles = <<>> /\ chainStates = <<>>
    /\ sfInput = DefaultStyle /\ sfOutput = <<>>
    /\ SelectorUnused
    /\ TransformUnused
    /\ SheetsUnused
    /\ ConditionUnused

\* the documents the engine is started on: element 1 is a size container
\* named card, wide or narrow, and element 2 has the class of c1 and c3
InitStyles ==
    {[e \in Elements |->
         IF e = 1
         THEN [DefaultStyle EXCEPT !.containerType = "size",
                                   !.containerName = "card", !.width = w]
         ELSE DefaultStyle] : w \in {Px, 2 * Px}}

\* the values the environment gives to a property of a computed style
StyleChoices ==
    {<<"containerType", "cq-normal">>, <<"containerType", "size">>,
     <<"display", "block">>, <<"display", "none">>,
     <<"width", Px>>, <<"width", 2 * Px>>}

ClassChoices == {"a", "b"}

\* the state after initializePolyfill: every instance is created and
\* connected, connect() has scheduled an update, no stylesheet is registered
Init ==
    /\ computedStyle \in InitStyles
    /\ classes = [e \in Elements |-> IF e = 2 THEN {"a"} ELSE {}]
    /\ queryDescriptorMap = <<>>
    /\ memo = [e \in Elements |-> NoMemo]
    /\ qdMemo = [id |-> 0, dep |-> <<>>, value |-> <<>>]
    /\ frameCache = {}
    /\ stateCalls = <<>>
    /\ prevLayoutState = [e \in Elements |-> 0]
    /\ isObservingSize = [e \in Elements |-> FALSE]
    /\ attrs = [e \in Elements |-> [child |-> <<>>, self |-> <<>>]]
    /\ inlineProps = [e \in Elements |-> NoInlineProps]
    /\ records = <<>>
    /\ resizePending = TRUE
    /\ pc = "idle"
    /\ queue = <<>>
    /\ envBudget = MaxEnvChanges
    /\ envSincePass = "none"
    /\ stablePass = FALSE
    /\ PureUnused

\* frameCache.clear() leaving the entries of the pass before in place
keepFrameCache(cache) == cache

\* frameCache.clear()
clearFrameCache(cache) == {}

\* a resizeObserver callback that observes the dummy element anew, as
\* scheduleUpdate() does, before it calls update() on the root
BeginPassRearming ==
    /\ pc = "idle" /\ records = <<>> /\ resizePending
    /\ resizePending' = TRUE
    /\ frameCache' = clearFrameCache(frameCache)
    /\ stateCalls' = <<>>
    /\ queue' = <<Root>>
    /\ pc' = "pass"
    /\ stablePass' = (envSincePass # "inputs" /\ prevLayoutState[Root] # 0)
    /\ envSincePass' = "none"
    /\ UNCHANGED <<computedStyle, classes, queryDescriptorMap, memo, qdMemo,
                   prevLayoutState, isObservingSize, attrs, inlineProps, records,
                   envBudget, pureVars>>

\* the resizeObserver callback up to its call of update() on the root
BeginPass ==
    /\ pc = "idle" /\ records = <<>> /\ resizePending
    /\ resizePending' = FALSE
    /\ frameCache' = clearFrameCache(frameCache)
    /\ stateCalls' = <<>>
    /\ queue' = <<Root>>
    /\ pc' = "pass"
    /\ stablePass' = (envSincePass # "inputs" /\ prevLayoutState[Root] # 0)
    /\ envSincePass' = "none"
    /\ UNCHANGED <<computedStyle, classes, queryDescriptorMap, memo, qdMemo,
                   prevLayoutState, isObservingSize, attrs, inlineProps, records,
                   envBudget, pureVars>>

\* update() of the node at the head of the queue; its calls of update() on
\* the children are put in front of the queue
UpdateNode ==
    /\ pc = "pass" /\ queue # <<>>
    /\ LET node == Head(queue)
           m1 == stateCall(node, [memo |-> memo, frameCache |-> frameCache,
                                  qd |-> qdMemo, calls |-> stateCalls])
           currentId == m1.memo[node].id
           currentState == m1.memo[node].value[1]
           changed == currentId # prevLayoutState[node]
           m2 == IF changed /\ node # Root
                 THEN stateCall(ParentOf[node], m1) ELSE m1
           currentParentState == IF node = Root THEN currentState
                                 ELSE m2.memo[ParentOf[node]].value[1]
           newChild == IF node = Root THEN attrs[node].child
                       ELSE updateAttributes(node, currentParentState)
           newSelf == updateAttributes(node, currentState)
           shouldObserveSize == currentState.isQueryContainer
           newProps == customUnitProperties(node, currentState, currentParentState)
           rest == Children(node) \o Tail(queue)
       IN  /\ memo' = m2.memo
           /\ frameCache' = m2.frameCache
           /\ stateCalls' = m2.calls
           /\ qdMemo' = m2.qd
           /\ IF changed
              THEN /\ prevLayoutState' = [prevLayoutState EXCEPT ![node] = currentId]
                   /\ attrs' = [attrs EXCEPT ![node] =
                                   [child |-> newChild, self |-> newSelf]]
                   /\ isObservingSize' =
                          [isObservingSize EXCEPT ![node] = shouldObserveSize]
                   /\ resizePending' =
                          (resizePending
                              \/ (shouldObserveSize /\ ~isObservingSize[node]))
                   /\ inlineProps' = [inlineProps EXCEPT ![node] = newProps]
                   /\ records' =
                          records
                            \o (IF node = Root THEN <<>>
                                ELSE attributeRecord(node, "child",
                                                     attrs[node].child, newChild))
                            \o attributeRecord(node, "self", attrs[node].self, newSelf)
                            \o styleRecord(node, inlineProps[node], newProps)
              ELSE UNCHANGED <<prevLayoutState, attrs, isObservingSize,
                               resizePending, inlineProps, records>>
           /\ queue' = rest
           /\ pc' = IF rest = <<>> THEN "idle" ELSE "pass"
    /\ UNCHANGED <<computedStyle, classes, queryDescriptorMap, envBudget,
                   envSincePass, stablePass, pureVars>>

\* the mutationObserver callback on the records queued so far: a record
\* whose attribute has its old value again is skipped, any other one
\* schedules an update
MutationCallback ==
    /\ pc = "idle" /\ records # <<>>
    /\ resizePending' =
           (resizePending
               \/ \E i \in 1..Len(records) :
                      getAttribute(records[i]) # records[i].oldValue)
    /\ records' = <<>>
    /\ UNCHANGED <<computedStyle, classes, queryDescriptorMap, memo, qdMemo,
                   frameCache, stateCalls, prevLayoutState, isObservingSize, attrs,
                   inlineProps, pc, queue, envBudget, envSincePass, stablePass,
                   pureVars>>

\* registerStyleSheet() for the style element, once its source is transpiled
RegisterStyleSheet ==
    /\ pc = "idle" /\ records = <<>> /\ queryDescriptorMap = <<>>
    /\ queryDescriptorMap' = AllQueryDescriptors
    /\ resizePending' = TRUE
    /\ envSincePass' = "inputs"
    /\ UNCHANGED <<computedStyle, classes, memo, qdMemo, frameCache, stateCalls,
                   prevLayoutState, isObservingSize, attrs, inlineProps, records,
                   pc, queue, envBudget, stablePass, pureVars>>

\* the environment changes a property of the computed style of an element;
\* the ResizeObserver reports an observed element whose box changes
EnvStyleChange ==
    /\ pc = "idle" /\ records = <<>> /\ envBudget > 0
    /\ \E e \in Elements, choice \in StyleChoices :
        /\ computedStyle[e][choice[1]] # choice[2]
        /\ computedStyle' = [computedStyle EXCEPT ![e][choice[1]] = choice[2]]
        /\ resizePending' =
               (resizePending
                   \/ (isObservingSize[e] /\ choice[1] \in {"width", "display"}))
    /\ envBudget' = envBudget - 1
    /\ envSincePass' = "inputs"
    /\ UNCHANGED <<classes, queryDescriptorMap, memo, qdMemo, frameCache, stateCalls,
                   prevLayoutState, isObservingSize, attrs, inlineProps, records,
                   pc, queue, stablePass, pureVars>>

\* the environment adds a class to an element or takes one away, which
\* changes the selectors the element matches and queues a mutation record
EnvClassChange ==
    /\ pc = "idle" /\ records = <<>> /\ envBudget > 0
    /\ \E e \in Elements \ {Root}, c \in ClassChoices :
        /\ classes' = [classes EXCEPT ![e] =
                          IF c \in @ THEN @ \ {c} ELSE @ \cup {c}]
        /\ records' = <<[target |-> e, attributeName |-> "class",
                         oldValue |-> classes[e]]>>
    /\ envBudget' = envBudget - 1
    /\ envSincePass' = IF envSincePass = "inputs" THEN "inputs" ELSE "selectors"
    /\ UNCHANGED <<computedStyle, queryDescriptorMap, memo, qdMemo, frameCache, stateCalls,
                   prevLayoutState, isObservingSize, attrs, inlineProps,
                   resizePending, pc, queue, stablePass, pureVars>>

\* the ResizeObserver delivers: the box of an observed element changed, the
\* element that follows the viewport included
ResizeNotification ==
    /\ pc = "idle" /\ records = <<>> /\ ~resizePending
    /\ resizePending' = TRUE
    /\ UNCHANGED <<computedStyle, classes, queryDescriptorMap, memo, qdMemo,
                   frameCache, stateCalls, prevLayoutState, isObservingSize, attrs,
                   inlineProps, records, pc, queue, envBudget, envSincePass,
                   stablePass, pureVars>>

Next ==
    \/ BeginPass
    \/ UpdateNode
    \/ MutationCallback
    \/ RegisterStyleSheet
    \/ EnvStyleChange
    \/ EnvClassChange
    \/ ResizeNotification

Spec == Init /\ [][Next]_vars

\* the steps of the engine: the callbacks of its two observers and the
\* calls of update() of a pass
EngineStep == BeginPass \/ UpdateNode \/ MutationCallback

\* the steps of the page and the browser that change what the engine reads
InputStep ==
    RegisterStyleSheet \/ EnvStyleChange \/ EnvClassChange \/ ResizeNotification

\* what a call of update() does to the calls that remain of the pass; the
\* steps of Next that do this are the steps of UpdateNode
PassStep ==
    /\ pc = "pass" /\ queue # <<>>
    /\ queue' = Children(Head(queue)) \o Tail(queue)
    /\ pc' = IF queue' = <<>> THEN "idle" ELSE "pass"

\* The browser delivers a resize observation that is pending, runs the
\* mutation observer microtask when records are queued, and a pass that has
\* begun runs to its end (update() calls update() on the children without
\* giving up control); nothing is required of the page.
SpecQuiescence ==
    /\ Init /\ [][Next]_vars
    /\ WF_vars(BeginPass)
    /\ WF_<<pc, queue>>(PassStep)
    /\ WF_vars(MutationCallback)

----------------------------------------------------------------------------
(* Claims about the layout states (SpecLayout) *)

\* the chain: position 1 is the root element, position i + 1 the child of i
ChainElements == 2..Len(chainStates)

HasCondition(state, uid) ==
    BitAnd(GetFlags(state.conditions, uid), FlagCondition) = FlagCondition

HasContainer(state, uid) ==
    BitAnd(GetFlags(state.conditions, uid), FlagContainer) = FlagContainer

RECURSIVE ChainHolds(_, _)
\* the condition of uid and of every descriptor above it holds in state
ChainHolds(state, uid) ==
    /\ HasCondition(state, uid)
    /\ Descriptor(uid).parent # NoParent => ChainHolds(state, Descriptor(uid).parent)

\* C1: in every layout state and for every descriptor D in it, the container
\* flag of D is (condition of D) and (D has no parent or the container flag of
\* its parent is set), so the rules of D apply only when the conditions of the
\* whole parent chain of D hold.
C1_ContainerFollowsParentContainer ==
    \A i \in 1..Len(chainStates) : \A uid \in DOMAIN chainStates[i].conditions :
        LET state == chainStates[i]
            parent == Descriptor(uid).parent
        IN  /\ HasContainer(state, uid) <=>
                   (HasCondition(state, uid)
                    /\ (parent = NoParent \/ HasContainer(state, parent)))
            /\ HasContainer(state, uid) => ChainHolds(state, uid)

\* C2: containment monotonicity: when the container flag of a descriptor with
\* a parent descriptor is set in a state, the condition flag of the parent is
\* set in the same state.
C2_ContainmentMonotonicity ==
    \A i \in 1..Len(chainStates) : \A uid \in DOMAIN chainStates[i].conditions :
        (Descriptor(uid).parent # NoParent /\ HasContainer(chainStates[i], uid))
            => HasCondition(chainStates[i], Descriptor(uid).parent)

C2_Witness ==
    \E i \in ChainElements :
        /\ chainStates[i].isQueryContainer
        /\ HasContainer(chainStates[i], "c3")
        /\ HasCondition(chainStates[i], "c2")
        /\ \E uid \in DOMAIN chainStates[i].conditions :
              Descriptor(uid).parent # NoParent /\ ~HasContainer(chainStates[i], uid)

\* what the style of chain element i says about descriptor uid
NamesMismatch(i, uid) ==
    /\ Descriptor(uid).rule.name # NoName
    /\ Descriptor(uid).rule.name \notin computeContainerNames(chainStyles[i].containerName)

Indeterminate(i, uid) ==
    evaluateContainerCondition(
        Descriptor(uid).rule,
        [sizeFeatures |-> computeSizeFeatures(computeLayoutData(chainStyles[i]),
                                              computeSizeData(chainStyles[i]))]) = "null"

\* the condition value of uid at the nearest position below i (the root
\* excluded) that satisfies Valid, FALSE when there is none
NearestValue(Valid(_, _), i, uid) ==
    LET valid == {j \in 2..(i - 1) : Valid(j, uid)}
    IN  IF valid = {} THEN FALSE
        ELSE HasCondition(chainStates[CHOOSE j \in valid : \A k \in valid : k <= j], uid)

InvalidAsStated(i, uid) ==
    \/ ~chainStates[i].isQueryContainer
    \/ NamesMismatch(i, uid)
    \/ Indeterminate(i, uid)

ValidAsStated(i, uid) == ~InvalidAsStated(i, uid)

EvaluatesConditions(i) ==
    /\ chainStates[i].isQueryContainer
    /\ EligibleForSizeContainment \in chainStates[i].displayFlags

Inherits(i, uid) ==
    \/ ~chainStates[i].isQueryContainer
    \/ EvaluatesConditions(i) /\ (NamesMismatch(i, uid) \/ Indeterminate(i, uid))

RecordsOwn(i, uid) == ~Inherits(i, uid)

OwnResult(i, uid) ==
    evaluateContainerCondition(
        Descriptor(uid).rule,
        [sizeFeatures |-> computeSizeFeatures(computeLayoutData(chainStyles[i]),
                                              computeSizeData(chainStyles[i]))])

\* C28: on a query container (a container-type and a display eligible for
\* size containment) a descriptor whose required name is not among the names
\* of the container is not evaluated and not recorded as false: the condition
\* recorded for its uid is the one the parent element recorded; a descriptor
\* with no required name, or whose name the container has, records what the
\* evaluation on the container gives, and the condition of the parent
\* element only when the evaluation is indeterminate.
C28_NameMismatchTakesParentResult ==
    \A i \in ChainElements : \A uid \in Uids :
        EvaluatesConditions(i) =>
            /\ NamesMismatch(i, uid) =>
                   HasCondition(chainStates[i], uid)
                       = HasCondition(chainStates[i - 1], uid)
            /\ ~NamesMismatch(i, uid) =>
                   HasCondition(chainStates[i], uid)
                       = IF OwnResult(i, uid) = "null"
                         THEN HasCondition(chainStates[i - 1], uid)
                         ELSE OwnResult(i, uid) = "true"

\* a container without the name records false for c2 below the root although
\* its size satisfies the condition; below it a container named card records
\* true, and a container without the name below that one records true
C28_Witness ==
    /\ Len(chainStates) >= 4
    /\ \A i \in 2..4 : EvaluatesConditions(i)
    /\ NamesMismatch(2, "c2") /\ OwnResult(2, "c2") = "true"
    /\ ~HasCondition(chainStates[2], "c2")
    /\ ~NamesMismatch(3, "c2") /\ HasCondition(chainStates[3], "c2")
    /\ NamesMismatch(4, "c2") /\ HasCondition(chainStates[4], "c2")

\* the test of the condition of the parent element as computeQueryCondition
\* writes it, and as a test of the bit
InheritedCondition(flags) == LogicalAnd(flags, FlagCondition) = FlagCondition
ConditionBit(flags) == BitAnd(flags, FlagCondition) = FlagCondition

\* C36: in the conditions map of every layout state a uid with the container
\* flag has the condition flag, so for every value the map of a parent holds
\* (0 for a uid it does not hold) the test `condition && Condition` of
\* computeQueryCondition is the test of the condition bit.
C36_ContainerFlagImpliesConditionFlag ==
    \A i \in 1..Len(chainStates) : \A uid \in Uids :
        LET flags == GetFlags(chainStates[i].conditions, uid)
        IN  /\ HasContainer(chainStates[i], uid) => HasCondition(chainStates[i], uid)
            /\ InheritedCondition(flags) = ConditionBit(flags)

\* a container records condition and container flag for c1, and a container
\* below it whose names do not match takes the condition from that value
C36_Witness ==
    /\ Len(chainStates) >= 3
    /\ EvaluatesConditions(2) /\ EvaluatesConditions(3)
    /\ chainStates[2].conditions["c1"] = FlagCondition + FlagContainer
    /\ \E uid \in Uids :
           /\ NamesMismatch(3, uid)
           /\ HasContainer(chainStates[2], uid)
           /\ HasCondition(chainStates[3], uid)

HasDisplayNoneAncestor(i) == \E j \in 1..(i - 1) : chainStyles[j].display = "none"

OwnDisplayEligible(i) ==
    EligibleForSizeContainment \in computeDisplayFlags(chainStyles[i].display)

----------------------------------------------------------------------------
(* Claims about computeSizeFeatures (SpecSize) *)

\* C9: computeSizeFeatures exposes only the axes of the container type.  For
\* inline-size under a horizontal writing axis: inlineSize = width = the width,
\* no blockSize, no height; under a vertical axis: inlineSize = height = the
\* height, no blockSize, no width; for size all four, inlineSize and blockSize
\* being width and height (horizontal) or height and width (vertical).
C9_SizeFeaturesFollowContainerType ==
    sfOutput # <<>> =>
        LET features == sfOutput[1]
            vertical == sfInput.writingMode \in VERTICAL_WRITING_MODES
            w == {sfInput.width}
            h == {sfInput.height}
            none == {}
        IN  /\ (sfInput.containerType = "inline-size" /\ ~vertical) =>
                   features = [inlineSize |-> w, width |-> w,
                               blockSize |-> none, height |-> none]
            /\ (sfInput.containerType = "inline-size" /\ vertical) =>
                   features = [inlineSize |-> h, height |-> h,
                               blockSize |-> none, width |-> none]
            /\ (sfInput.containerType = "size" /\ ~vertical) =>
                   features = [inlineSize |-> w, width |-> w,
                               blockSize |-> h, height |-> h]
            /\ (sfInput.containerType = "size" /\ vertical) =>
                   features = [inlineSize |-> h, height |-> h,
                               blockSize |-> w, width |-> w]

\* an inline-size container in a vertical writing mode, wider than high
C9_Witness ==
    /\ sfOutput # <<>>
    /\ sfInput.containerType = "inline-size"
    /\ sfInput.writingMode = "vertical-rl"
    /\ sfInput.width > sfInput.height
    /\ sfOutput[1].inlineSize = {sfInput.height}

----------------------------------------------------------------------------
(* Claims about the update pass (Spec) *)

\* the layout state the memo of an element holds
StateOf(e) == memo[e].value[1]

\* the state an element has in the document as it is now, given the state
\* of its parent
StateFromInputs(e) ==
    IF e = Root
    THEN computeRootState(computedStyle[Root], queryDescriptorMap)
    ELSE computeLayoutState(computedStyle[e], StateOf(ParentOf[e]))

\* C4: within one update pass, an element below the root has a state for the
\* pass only when its parent has one, and that state is derived from the
\* state the parent has for this pass: the parent state it recorded is the
\* one the parent holds, and every state of the pass is the state the
\* document as it is now gives from the state of the parent.
C4_ParentStateOfSamePass ==
    envSincePass = "none" =>
        \A e \in frameCache :
            /\ memo[e].value = <<StateFromInputs(e)>>
            /\ e # Root =>
                /\ ParentOf[e] \in frameCache
                /\ memo[e].parentId = memo[ParentOf[e]].id

\* a pass after the first one, begun after a change of the inputs, in which
\* the state of every element was computed or revalidated
C4_Witness ==
    /\ envSincePass = "none"
    /\ frameCache = Elements
    /\ envBudget < MaxEnvChanges
    /\ ~stablePass
    /\ queryDescriptorMap # <<>>

PassCompleted ==
    pc = "idle" /\ envSincePass = "none" /\ prevLayoutState[Root] # 0

\* the uids the attribute of element e has to list
ExpectedChildUids(e) ==
    {uid \in Uids :
        /\ Descriptor(uid).selector # NoSelector
        /\ HasContainer(StateOf(ParentOf[e]), uid)
        /\ Descriptor(uid).selector \in classes[e]}

\* C6: after every completed update pass the uid attribute of every element
\* below the root lists exactly the uids of the descriptors with a selector
\* whose container flag is set in the state of the parent and whose selector
\* the element matches.
C6_ChildAttributeExact ==
    PassCompleted =>
        \A e \in Elements \ {Root} :
            {attrs[e].child[i] : i \in 1..Len(attrs[e].child)} = ExpectedChildUids(e)

----------------------------------------------------------------------------
(* Claims about the selector transform (SpecSelector) *)

IsComma(n) == n.type = "CommaToken"

RECURSIVE SplitAtCommas(_)
\* the comma-separated selectors of a prelude, in order
SplitAtCommas(nodes) ==
    IF \A i \in 1..Len(nodes) : ~IsComma(nodes[i])
    THEN <<nodes>>
    ELSE LET first == CHOOSE i \in 1..Len(nodes) :
                          /\ IsComma(nodes[i])
                          /\ \A j \in 1..(i - 1) : ~IsComma(nodes[j])
         IN  <<SubSeq(nodes, 1, first - 1)>>
                 \o SplitAtCommas(SubSeq(nodes, first + 1, Len(nodes)))

LegacyPseudoElements == {"before", "Before"}

\* position j of a selector starts a pseudo-element: a double colon, or a
\* colon and the name of a legacy pseudo-element
StartsPseudoElement(selector, j) ==
    /\ j + 1 <= Len(selector)
    /\ selector[j].type = "ColonToken"
    /\ \/ selector[j + 1].type = "ColonToken"
       \/ /\ selector[j + 1].type = "IdentToken"
          /\ selector[j + 1].value \in LegacyPseudoElements

\* the first position that starts a pseudo-element, the end if there is none
SplitPosition(selector) ==
    CHOOSE j \in 1..(Len(selector) + 1) :
        /\ j = Len(selector) + 1 \/ StartsPseudoElement(selector, j)
        /\ \A k \in 1..(j - 1) : ~StartsPseudoElement(selector, k)

PrefixOf(selector) == SubSeq(selector, 1, SplitPosition(selector) - 1)

SuffixOf(selector) == SubSeq(selector, SplitPosition(selector), Len(selector))

IsWhitespaceOnly(nodes) ==
    \A i \in 1..Len(nodes) : nodes[i].type = "WhitespaceToken"

\* nodes without the whitespace at its end
Trimmed(nodes) ==
    IF IsWhitespaceOnly(nodes) THEN <<>>
    ELSE LET last == CHOOSE i \in 1..Len(nodes) :
                         /\ nodes[i].type # "WhitespaceToken"
                         /\ \A j \in (i + 1)..Len(nodes) :
                                nodes[j].type = "WhitespaceToken"
         IN  SubSeq(nodes, 1, last)

\* the attribute match for the uid on the platform
AttributeMatch(input) ==
    IF input.supportsWhere
    THEN <<delim(":"), WhereFunction(input.containerUID)>>
    ELSE <<AttributeBlock(input.containerUID)>>

RECURSIVE JoinWithCommas(_)
JoinWithCommas(selectors) ==
    IF selectors = <<>> THEN <<>>
    ELSE IF Len(selectors) = 1 THEN selectors[1]
    ELSE selectors[1] \o <<CommaToken>> \o JoinWithCommas(Tail(selectors))

\* the rewriting of one selector as the claim states it
RewrittenAsStated(input, selector) ==
    (IF Trimmed(PrefixOf(selector)) = <<>>
     THEN <<delim("*")>> ELSE Trimmed(PrefixOf(selector)))
        \o AttributeMatch(input) \o SuffixOf(selector)

RewrittenSelectors(nodes) ==
    LET all == SplitAtCommas(nodes)
    IN  IF all[Len(all)] = <<>> THEN SubSeq(all, 1, Len(all) - 1) ELSE all

\* the prefix in the rewritten selector at position i: trimmed, but a first
\* prefix of whitespace only is kept and an empty first prefix is a star;
\* without :where() and outside the WPT build a :not(.container-query-polyfill)
\* at its end is taken away
RewrittenPrefix(input, i, selector) ==
    LET prefix == PrefixOf(selector)
        kept == IF i = 1 /\ prefix = <<>> THEN <<delim("*")>>
                ELSE IF i = 1 /\ IsWhitespaceOnly(prefix) THEN prefix
                ELSE Trimmed(prefix)
    IN  IF ~input.supportsWhere /\ ~input.isWptBuild /\ endsWithNoWhere(kept)
        THEN SubSeq(kept, 1, Len(kept) - Len(NO_WHERE_SELECTOR_TOKENS))
        ELSE kept

StartsWithPseudoElement(selector) ==
    PrefixOf(selector) = <<>> /\ SuffixOf(selector) # <<>>

\* C11: every selector of the list that starts with a pseudo-element, the
\* first one and every later one, has the prefix * at its position in the
\* element selector and in the rewritten style selector.
C11_StarForEveryEmptyPrefix ==
    (selOutput # <<>> /\ selInput.supportsWhere) =>
        LET selectors == SplitAtCommas(selInput.nodes)
            elements == SplitAtCommas(selOutput[1].elementSelector)
            styles == SplitAtCommas(selOutput[1].styleSelector)
        IN  \A i \in 1..Len(selectors) :
                StartsWithPseudoElement(selectors[i]) =>
                    /\ i <= Len(elements) /\ elements[i] = <<delim("*")>>
                    /\ i <= Len(styles) /\ styles[i] # <<>>
                    /\ styles[i][1] = delim("*")

----------------------------------------------------------------------------
(* SpecTransform: transpileStyleSheet.  A stylesheet is the preorder list    *)
(* of its rules, each with its nesting depth; the declarations of a rule are *)
(* left out, the at-rules of its declaration list are its children.          *)

MaxNodes == 3
\* transpileStyleSheet is called while the counter is below MaxUid
MaxUid == 2

\* a rule of the stylesheet
Rule(kind, selector, names, conditionParses, block) ==
    [kind |-> kind, selector |-> selector, names |-> names,
     conditionParses |-> conditionParses, block |-> block]

\* the preludes of the style rules
StylePreludes ==
    {<<ident("a")>>, <<ident("a")>> \o NO_WHERE_SELECTOR_TOKENS}

\* the rules of the stylesheets: style rules; @container with a prelude
\* that parses, with two names, with a condition that does not parse, and
\* without a block; @media, @supports and @keyframes
Rules ==
    {Rule("style", selector, <<>>, TRUE, TRUE) : selector \in StylePreludes}
        \cup {Rule("container", <<>>, <<>>, TRUE, TRUE),
              Rule("container", <<>>, <<"x", "y">>, TRUE, TRUE),
              Rule("container", <<>>, <<>>, FALSE, TRUE),
              Rule("container", <<>>, <<>>, TRUE, FALSE)}
        \cup {Rule(kind, <<>>, <<>>, TRUE, TRUE) :
                  kind \in {"media", "supports", "keyframes"}}

Min(a, b) == IF a <= b THEN a ELSE b

\* the index of the last rule inside rule i
SubtreeEnd(depths, i) ==
    LET later == {j \in (i + 1)..Len(depths) : depths[j] <= depths[i]}
    IN  IF later = {} THEN Len(depths)
        ELSE (CHOOSE j \in later : \A k \in later : j <= k) - 1

\* the index of the rule whose block holds rule i, 0 at the top level
EnclosingRule(depths, i) ==
    LET before == {j \in 1..(i - 1) : depths[j] < depths[i]}
    IN  IF before = {} THEN 0
        ELSE CHOOSE j \in before : \A k \in before : k <= j

\* what parseStylesheet can return: blocks nest, a rule without a block holds
\* nothing, and the list of a style rule or keyframe holds no style rule
IsStylesheet(rules, depths) ==
    /\ Len(depths) = Len(rules)
    /\ Len(rules) > 0 => depths[1] = 0
    /\ \A i \in 2..Len(rules) :
           /\ depths[i] <= depths[i - 1] + 1
           /\ LET e == EnclosingRule(depths, i)
              IN  e # 0 =>
                      /\ depths[e] = depths[i] - 1
                      /\ rules[e].block
                      /\ rules[e].kind = "style" => rules[i].kind # "style"

\* the nesting depths of n rules in preorder
Depths(n) ==
    {depths \in [1..n -> 0..(n - 1)] :
        /\ depths[1] = 0
        /\ \A i \in 2..n : depths[i] <= depths[i - 1] + 1}

\* a parseContainerRule that would accept a list of names
parseContainerRuleManyNames(node) ==
    IF ~node.conditionParses
    THEN <<>>
    ELSE <<[names |-> {node.names[i] : i \in 1..Len(node.names)}]>>

\* parseContainerRule: null (<<>>) for more than one name and for a
\* condition that does not parse
parseContainerRule(node) ==
    IF Len(node.names) > 1 \/ ~node.conditionParses
    THEN <<>>
    ELSE <<[names |-> {node.names[i] : i \in 1..Len(node.names)}]>>

\* the uid of `c${CONTAINER_ID++}`
uidOf(id) == "c" \o ToString(id)

\* Array.from(elementSelectors).join(', ')
RECURSIVE join(_)
join(selectors) ==
    IF Len(selectors) = 0 THEN <<>>
    ELSE IF Len(selectors) = 1 THEN selectors[1]
    ELSE selectors[1] \o <<CommaToken, WhitespaceToken>> \o join(Tail(selectors))

\* a Set.add that would hold a value once for every rule that uses it
addAlways(selectors, selector) == Append(selectors, selector)

\* Set.add: insertion order is kept, a value is held once
add(selectors, selector) ==
    IF \E i \in 1..Len(selectors) : selectors[i] = selector
    THEN selectors
    ELSE Append(selectors, selector)

\* a rule of the output: visited is FALSE for a node returned as it was
Emitted(visited, name, prelude) ==
    [visited |-> visited, name |-> name, prelude |-> prelude]

Verbatim(node) == Emitted(FALSE, node.kind, node.selector)

\* the closure of a container context: transformStyleRule of
\* transformContainerAtRule
containerStyleRule(env, i, uid, st) ==
    LET node == env.rules[i]
        r == transformSelector([nodes |-> node.selector, containerUID |-> uid,
                                supportsWhere |-> env.supportsWhere,
                                isWptBuild |-> FALSE])
        invalid == st.closures[uid].invalidSelectors \o r.invalidSelectors
    IN  IF invalid # <<>>
        THEN [st EXCEPT !.closures[uid].invalidSelectors = invalid,
                        !.out[i] = Emitted(TRUE, "style", node.selector)]
        ELSE [st EXCEPT !.closures[uid].elementSelectors =
                            add(@, r.elementSelector),
                        !.out[i] = Emitted(TRUE, "style", r.styleSelector)]

RECURSIVE transformRules(_, _, _, _, _, _)
RECURSIVE transformRule(_, _, _, _, _)

\* the rules i..last of one list, in order, under the context of parent
transformRules(env, i, last, parent, list, st) ==
    IF i > last THEN st
    ELSE transformRules(env, SubtreeEnd(env.depths, i) + 1, last, parent, list,
                        transformRule(env, i, parent, list, st))

\* the rules inside rule i
transformBlock(env, i, parent, list, st) ==
    transformRules(env, i + 1, SubtreeEnd(env.depths, i), parent, list, st)

transformMediaAtRule(env, i, parent, st) ==
    LET node == env.rules[i]
    IN  transformBlock(env, i, parent, "rules",
                       [st EXCEPT !.out[i] = Emitted(TRUE, node.kind, <<>>)])

\* a transformKeyframesAtRule that would drop the context of the container
transformKeyframesAtRuleWithoutContext(env, i, parent, st) ==
    LET node == env.rules[i]
    IN  transformBlock(env, i, NoParent, "keyframes",
                       [st EXCEPT !.out[i] = Emitted(TRUE, node.kind, <<>>)])

transformKeyframesAtRule(env, i, parent, st) ==
    LET node == env.rules[i]
    IN  transformBlock(env, i, parent, "keyframes",
                       [st EXCEPT !.out[i] = Emitted(TRUE, node.kind, <<>>)])

\* a failure that would return the rules as far as they were rewritten
returnTransformedRules(env, i, st) == st.out

\* the failure of a container rule: the node is returned as it was
returnNode(env, i, st) ==
    [j \in 1..Len(env.rules) |->
        IF j >= i /\ j <= SubtreeEnd(env.depths, i)
        THEN Verbatim(env.rules[j])
        ELSE st.out[j]]

transformContainerAtRule(env, i, parent, st) ==
    LET node == env.rules[i]
        containerRule == parseContainerRule(node)
    IN  IF ~node.block \/ containerRule = <<>>
        THEN st
        ELSE
          LET uid == uidOf(st.CONTAINER_ID)
              st1 == [st EXCEPT
                        !.CONTAINER_ID = @ + 1,
                        !.allocated = Append(@, uid),
                        !.closures = @ @@ (uid :> [elementSelectors |-> <<>>,
                                                   invalidSelectors |-> <<>>])]
              st2 == transformBlock(env, i, uid, "rules", st1)
              closure == st2.closures[uid]
          IN  IF closure.invalidSelectors # <<>>
              THEN [st2 EXCEPT
                      !.out = returnNode(env, i, st2),
                      !.warnings = Append(@,
                          {closure.invalidSelectors[k] :
                              k \in 1..Len(closure.invalidSelectors)})]
              ELSE [st2 EXCEPT
                      !.queryDescriptors = Append(@,
                          [names |-> containerRule[1].names,
                           selector |->
                               IF closure.elementSelectors = <<>> THEN <<>>
                               ELSE <<join(closure.elementSelectors)>>,
                           parent |-> parent,
                           uid |-> uid]),
                      !.out[i] = Emitted(TRUE, "media", <<ident("all")>>)]

transformAtRule(env, i, parent, st) ==
    LET name == env.rules[i].kind
    IN  IF name \in {"media", "supports"}
        THEN transformMediaAtRule(env, i, parent, st)
        ELSE IF name = "keyframes"
        THEN transformKeyframesAtRule(env, i, parent, st)
        ELSE transformContainerAtRule(env, i, parent, st)

\* transformStyleRule and transformKeyframeRule: the declaration block
\* first, then, for a style rule, the closure of the context
transformStyleRule(env, i, parent, list, st) ==
    LET st1 == transformBlock(env, i, parent, "declarations", st)
    IN  IF list = "keyframes" \/ parent = NoParent
        THEN [st1 EXCEPT
                !.out[i] = Emitted(TRUE, "style", env.rules[i].selector)]
        ELSE containerStyleRule(env, i, parent, st1)

transformRule(env, i, parent, list, st) ==
    IF env.rules[i].kind = "style"
    THEN transformStyleRule(env, i, parent, list, st)
    ELSE transformAtRule(env, i, parent, st)

\* a transpileStyleSheet with a counter of its own, which starts at 0 in
\* every call
transpileStyleSheetOwnCounter(sheet, supportsWhere, id) ==
    LET env == [rules |-> sheet.rules, depths |-> sheet.depths,
                supportsWhere |-> supportsWhere]
        st == transformRules(
                  env, 1, Len(sheet.rules), NoParent, "rules",
                  [CONTAINER_ID |-> 0,
                   allocated |-> <<>>,
                   closures |-> <<>>,
                   queryDescriptors |-> <<>>,
                   warnings |-> <<>>,
                   out |-> [j \in 1..Len(sheet.rules) |->
                               Verbatim(sheet.rules[j])]])
    IN  [st EXCEPT !.CONTAINER_ID = id + Len(st.allocated)]

\* transpileStyleSheet, with the counter it starts from
transpileStyleSheet(sheet, supportsWhere, id) ==
    LET env == [rules |-> sheet.rules, depths |-> sheet.depths,
                supportsWhere |-> supportsWhere]
    IN  transformRules(
            env, 1, Len(sheet.rules), NoParent, "rules",
            [CONTAINER_ID |-> id,
             allocated |-> <<>>,
             closures |-> <<>>,
             queryDescriptors |-> <<>>,
             warnings |-> <<>>,
             out |-> [j \in 1..Len(sheet.rules) |-> Verbatim(sheet.rules[j])]])

\* the rules of the list of rule i, in order
RulesOf(depths, i) ==
    SelectSeq([j \in 1..Len(depths) |-> j],
              LAMBDA j : EnclosingRule(depths, j) = i)

\* the rule list of the at-rule that stands for container rule i:
\* transformedRules, the rules of its list as transformStylesheet returned
\* them
wrapperValue(env, i, st) ==
    [k \in 1..Len(RulesOf(env.depths, i)) |-> st.out[RulesOf(env.depths, i)[k]]]

\* the rule lists of the container rules that were transformed
wrappersOf(env, st) ==
    [i \in {j \in 1..Len(env.rules) :
                /\ env.rules[j].kind = "container"
                /\ st.out[j] = Emitted(TRUE, "media", <<ident("all")>>)}
        |-> wrapperValue(env, i, st)]

InitTransform ==
    /\ EngineUnused
    /\ OthersUnused
    /\ SelectorUnused
    /\ chainStyles = <<>> /\ chainStates = <<>>
    /\ sfInput = DefaultStyle /\ sfOutput = <<>>
    /\ TransformUnused
    /\ SheetsUnused
    /\ ConditionUnused

\* one call of transpileStyleSheet
Transpile ==
    /\ sheetOutput = <<>>
    /\ CONTAINER_ID < MaxUid
    /\ \E n \in 1..MaxNodes, supportsWhere \in BOOLEAN :
       \E depths \in Depths(n), rules \in [1..n -> Rules] :
           LET sheet == [rules |-> rules, depths |-> depths]
               st == transpileStyleSheet(sheet, supportsWhere, CONTAINER_ID)
               env == [rules |-> rules, depths |-> depths,
                       supportsWhere |-> supportsWhere]
           IN  /\ IsStylesheet(rules, depths)
               /\ sheetInput' = <<[rules |-> sheet.rules,
                                  depths |-> sheet.depths,
                                  supportsWhere |-> supportsWhere,
                                  CONTAINER_ID |-> CONTAINER_ID]>>
               /\ sheetOutput' = <<[out |-> st.out,
                                   wrappers |-> wrappersOf(env, st),
                                   queryDescriptors |-> st.queryDescriptors,
                                   allocated |-> st.allocated,
                                   warnings |-> st.warnings]>>
               /\ CONTAINER_ID' = st.CONTAINER_ID
               /\ allocatedUids' = allocatedUids \o st.allocated
    /\ UNCHANGED <<chainStyles, chainStates, sfInput, sfOutput, selVars,
                   engineVars, auxVars>>

\* the caller takes the result; the counter of the module stays
TakeResult ==
    /\ sheetOutput # <<>>
    /\ sheetInput' = <<>>
    /\ sheetOutput' = <<>>
    /\ UNCHANGED <<CONTAINER_ID, allocatedUids, chainStyles,
                   chainStates, sfInput, sfOutput, selVars, engineVars, auxVars>>

NextTransform == Transpile \/ TakeResult

SpecTransform == InitTransform /\ [][NextTransform]_vars

----------------------------------------------------------------------------
(* Claims about transpileStyleSheet (SpecTransform)                          *)

Transpiled == sheetOutput # <<>>

SheetRules == sheetInput[1].rules
SheetDepths == sheetInput[1].depths
RuleIndices == 1..Len(SheetRules)
QueryDescriptors == sheetOutput[1].queryDescriptors

\* the rules whose blocks hold rule i, the nearest one last
RECURSIVE Enclosing(_)
Enclosing(i) ==
    LET e == EnclosingRule(SheetDepths, i)
    IN  IF e = 0 THEN <<>> ELSE Append(Enclosing(e), e)

\* the nearest enclosing rule of the kinds given, 0 if there is none
NearestEnclosing(i, kinds) ==
    LET es == Enclosing(i)
        hits == {k \in 1..Len(es) : SheetRules[es[k]].kind \in kinds}
    IN  IF hits = {} THEN 0
        ELSE es[CHOOSE k \in hits : \A m \in hits : m <= k]

InnermostContainer(i) == NearestEnclosing(i, {"container"})

\* an @container rule with a block and a prelude that parses
ParsesAsContainer(i) ==
    /\ SheetRules[i].kind = "container"
    /\ SheetRules[i].block
    /\ Len(SheetRules[i].names) <= 1
    /\ SheetRules[i].conditionParses

\* no enclosing @container rule was left alone because of its prelude
InsideParsedContainers(i) ==
    \A k \in 1..Len(Enclosing(i)) :
        SheetRules[Enclosing(i)[k]].kind = "container" =>
            ParsesAsContainer(Enclosing(i)[k])

SuccessfullyParsed(i) == ParsesAsContainer(i) /\ InsideParsedContainers(i)

\* a style rule, as opposed to a keyframe of @keyframes
IsStyleRule(i) ==
    /\ SheetRules[i].kind = "style"
    /\ EnclosingRule(SheetDepths, i) # 0 =>
           SheetRules[EnclosingRule(SheetDepths, i)].kind # "keyframes"

\* the style rules whose innermost enclosing @container is rule i
StyleRulesOf(i) ==
    {j \in RuleIndices : IsStyleRule(j) /\ InnermostContainer(j) = i}

\* the selector lacks the opt-in suffix a platform without :where() needs
LacksOptIn(i) ==
    LET selector == SheetRules[i].selector
        n == Len(NO_WHERE_SELECTOR_TOKENS)
    IN  \/ Len(selector) < n
        \/ SubSeq(selector, Len(selector) - n + 1, Len(selector))
               # NO_WHERE_SELECTOR_TOKENS

Unsupported(i) == ~sheetInput[1].supportsWhere /\ LacksOptIn(i)

\* a successfully parsed @container rule none of whose style rules is
\* unsupported on the platform
Transformed(i) ==
    SuccessfullyParsed(i) /\ \A j \in StyleRulesOf(i) : ~Unsupported(j)

\* the uid of the n-th successfully parsed @container rule of the call
UidOfRule(i) ==
    uidOf(sheetInput[1].CONTAINER_ID
              + Cardinality({j \in 1..(i - 1) : SuccessfullyParsed(j)}))

\* the element-targeting selector of style rule j
ElementSelectorOf(j) ==
    transformSelector([nodes |-> SheetRules[j].selector,
                       containerUID |-> "",
                       supportsWhere |-> sheetInput[1].supportsWhere,
                       isWptBuild |-> FALSE]).elementSelector

ElementSelectorsOf(i) == {ElementSelectorOf(j) : j \in StyleRulesOf(i)}

\* selector is the ', '-joined list of the set, in some order
IsJoinOf(selector, set) ==
    \E order \in [1..Cardinality(set) -> set] :
        /\ \A e \in set : \E k \in DOMAIN order : order[k] = e
        /\ selector = join(order)

DescriptorOf(i) ==
    CHOOSE d \in {QueryDescriptors[k] : k \in DOMAIN QueryDescriptors} :
        d.uid = UidOfRule(i)

HasDescriptor(i) ==
    \E k \in DOMAIN QueryDescriptors : QueryDescriptors[k].uid = UidOfRule(i)

\* C12: the returned descriptors are those of the transformed @container
\* rules, and the selector of each is the ', '-joined union of the distinct
\* element selectors of the style rules whose innermost enclosing @container
\* it is (through @media and @supports, without the rules of a nested
\* @container and without keyframes), and null when there is no such rule.
C12_SelectorIsUnionOfOwnRules ==
    Transpiled =>
        /\ \A k \in DOMAIN QueryDescriptors :
               \E i \in RuleIndices :
                   Transformed(i) /\ QueryDescriptors[k].uid = UidOfRule(i)
        /\ \A i \in RuleIndices :
               Transformed(i) =>
                   /\ HasDescriptor(i)
                   /\ IF StyleRulesOf(i) = {}
                      THEN DescriptorOf(i).selector = <<>>
                      ELSE /\ DescriptorOf(i).selector # <<>>
                           /\ IsJoinOf(DescriptorOf(i).selector[1],
                                       ElementSelectorsOf(i))

\* @container (c) { a {} a {} }: one descriptor, its selector is "a"
C12_Witness ==
    /\ Transpiled
    /\ sheetInput[1].supportsWhere
    /\ Len(SheetRules) = 3
    /\ SheetDepths = <<0, 1, 1>>
    /\ ParsesAsContainer(1)
    /\ SheetRules[2].kind = "style" /\ SheetRules[2].selector = <<ident("a")>>
    /\ SheetRules[3] = SheetRules[2]
    /\ Len(QueryDescriptors) = 1
    /\ QueryDescriptors[1].selector = <<(<<ident("a")>>)>>

\* the uid of the nearest enclosing @container rule, null if there is none
ParentUidOf(i) ==
    IF InnermostContainer(i) = 0 THEN NoParent
    ELSE UidOfRule(InnermostContainer(i))

\* rule i and every @container rule around it were transformed, so the
\* block of rule i is emitted rewritten
EmittedTransformed(i) ==
    /\ Transformed(i)
    /\ \A k \in 1..Len(Enclosing(i)) :
           SheetRules[Enclosing(i)[k]].kind = "container" =>
               Transformed(Enclosing(i)[k])

\* the prelude of style rule j scoped with uid
ScopedWith(j, uid) ==
    transformSelector([nodes |-> SheetRules[j].selector,
                       containerUID |-> uid,
                       supportsWhere |-> sheetInput[1].supportsWhere,
                       isWptBuild |-> FALSE]).styleSelector

\* C13: the parent of the descriptor of a successfully parsed @container
\* rule is the descriptor of the nearest enclosing successfully parsed
\* @container rule, through @media, @supports, @keyframes and style-rule
\* blocks, and null when there is none; an emitted style rule is scoped with
\* the uid of its innermost enclosing @container rule only.
C13_ParentIsNearestEnclosingContainer ==
    Transpiled =>
        /\ \A i \in RuleIndices :
               (SuccessfullyParsed(i) /\ HasDescriptor(i)) =>
                   DescriptorOf(i).parent = ParentUidOf(i)
        /\ \A j \in RuleIndices :
               IsStyleRule(j) =>
                   sheetOutput[1].out[j].prelude =
                       IF InnermostContainer(j) # 0
                              /\ EmittedTransformed(InnermostContainer(j))
                       THEN ScopedWith(j, ParentUidOf(j))
                       ELSE SheetRules[j].selector

\* @container (c) { @container (d) { a {} } }: the inner descriptor has the
\* outer one as parent and the rule is scoped with the inner uid
C13_Witness ==
    /\ Transpiled
    /\ sheetInput[1].supportsWhere
    /\ sheetInput[1].CONTAINER_ID = 0
    /\ SheetDepths = <<0, 1, 2>>
    /\ ParsesAsContainer(1) /\ ParsesAsContainer(2)
    /\ SheetRules[3].kind = "style" /\ SheetRules[3].selector = <<ident("a")>>
    /\ Len(QueryDescriptors) = 2
    /\ QueryDescriptors[1].uid = "c1" /\ QueryDescriptors[1].parent = "c0"
    /\ QueryDescriptors[2].uid = "c0" /\ QueryDescriptors[2].parent = NoParent
    /\ sheetOutput[1].out[3].prelude =
           <<ident("a"), delim(":"), WhereFunction("c1")>>

\* the number in a uid
uidNumber(uid) ==
    CHOOSE n \in 0..(MaxUid + MaxNodes) : uidOf(n) = uid

\* C14: over all calls no uid is allocated twice, the numbers grow in the
\* order of allocation, and the number of a nested descriptor is greater
\* than the number of its parent.
C14_UidsUniqueAndIncreasing ==
    /\ \A k, n \in DOMAIN allocatedUids :
           k < n => uidNumber(allocatedUids[k]) < uidNumber(allocatedUids[n])
    /\ Transpiled =>
           \A k \in DOMAIN QueryDescriptors :
               QueryDescriptors[k].parent # NoParent =>
                   uidNumber(QueryDescriptors[k].uid)
                       > uidNumber(QueryDescriptors[k].parent)

\* a second call, @container (c) { @container (d) { } }, after a call that
\* allocated c0
C14_Witness ==
    /\ Transpiled
    /\ sheetInput[1].CONTAINER_ID = 1
    /\ SheetDepths = <<0, 1>>
    /\ allocatedUids = <<"c0", "c1", "c2">>
    /\ Len(QueryDescriptors) = 2
    /\ QueryDescriptors[1].uid = "c2" /\ QueryDescriptors[1].parent = "c1"

\* the rules inside rule i
Inside(i) == (i + 1)..SubtreeEnd(SheetDepths, i)

\* an @container rule whose prelude does not parse or that has no block
LeftAlone(i) == SheetRules[i].kind = "container" /\ ~ParsesAsContainer(i)

\* rule j is emitted transformed: it is not left alone and every @container
\* rule around it is emitted transformed
StillTransformed(j) ==
    /\ ~LeftAlone(j)
    /\ SheetRules[j].kind = "container" => Transformed(j)
    /\ \A k \in 1..Len(Enclosing(j)) :
           SheetRules[Enclosing(j)[k]].kind = "container" =>
               Transformed(Enclosing(j)[k])

\* C15: an @container rule whose prelude does not parse, or that has no
\* block, is returned as it is with its body not rewritten, gets no uid and
\* no descriptor, and the rest of the stylesheet is still transformed.
C15_UnparsedContainerLeftAlone ==
    Transpiled =>
        /\ \A i \in RuleIndices :
               LeftAlone(i) =>
                   \A j \in {i} \cup Inside(i) :
                       sheetOutput[1].out[j] = Verbatim(SheetRules[j])
        /\ Len(sheetOutput[1].allocated)
               = Cardinality({i \in RuleIndices : SuccessfullyParsed(i)})
        /\ \A k \in DOMAIN QueryDescriptors :
               \E i \in RuleIndices :
                   SuccessfullyParsed(i)
                       /\ QueryDescriptors[k].uid = UidOfRule(i)
        /\ \A j \in RuleIndices :
               StillTransformed(j) => sheetOutput[1].out[j].visited

\* @container x y (c) { a {} } @container (c) { }: the first rule and its
\* body are returned as they are, the second rule gets c0
C15_Witness ==
    /\ Transpiled
    /\ sheetInput[1].supportsWhere
    /\ sheetInput[1].CONTAINER_ID = 0
    /\ SheetDepths = <<0, 1, 0>>
    /\ SheetRules[1].kind = "container" /\ SheetRules[1].names = <<"x", "y">>
    /\ SheetRules[2].kind = "style"
    /\ ParsesAsContainer(3)
    /\ sheetOutput[1].out[1] = Verbatim(SheetRules[1])
    /\ sheetOutput[1].out[2] = Verbatim(SheetRules[2])
    /\ sheetOutput[1].out[3] = Emitted(TRUE, "media", <<ident("all")>>)
    /\ sheetOutput[1].allocated = <<"c0">>
    /\ Len(QueryDescriptors) = 1

\* the style rules of @container rule i that the platform cannot scope
UnsupportedRulesOf(i) == {j \in StyleRulesOf(i) : Unsupported(j)}

\* C16: without :where(), when a style rule under an @container rule lacks
\* the opt-in suffix, the whole @container rule is emitted untransformed,
\* the offending selectors are collected into one diagnostic, the rule gets
\* no descriptor in the returned list, and no rule of its block is emitted
\* rewritten.
C16_UnsupportedSelectorLeavesRuleUntransformed ==
    Transpiled =>
        \A i \in RuleIndices :
            (SuccessfullyParsed(i) /\ UnsupportedRulesOf(i) # {}) =>
                /\ \A j \in {i} \cup Inside(i) :
                       sheetOutput[1].out[j] = Verbatim(SheetRules[j])
                /\ \E k \in DOMAIN sheetOutput[1].warnings :
                       sheetOutput[1].warnings[k] =
                           {SheetRules[j].selector : j \in UnsupportedRulesOf(i)}
                /\ ~HasDescriptor(i)

\* @container (c) { a:not(.container-query-polyfill) {} a {} } without
\* :where(): the first rule was rewritten before the second one was found
\* invalid, and the block is emitted as it was
C16_Witness ==
    /\ Transpiled
    /\ ~sheetInput[1].supportsWhere
    /\ SheetDepths = <<0, 1, 1>>
    /\ ParsesAsContainer(1)
    /\ SheetRules[2].kind = "style" /\ ~LacksOptIn(2)
    /\ SheetRules[3].kind = "style" /\ LacksOptIn(3)
    /\ \A j \in 1..3 : sheetOutput[1].out[j] = Verbatim(SheetRules[j])
    /\ sheetOutput[1].warnings = <<{<<ident("a")>>}>>
    /\ QueryDescriptors = <<>>

\* the rule that resets the internal container-type and container-name
\* properties on every element: * { type: initial; name: initial }
BLOCK_PREFIX == <<Emitted(FALSE, "style", <<delim("*")>>)>>

Wrappers == sheetOutput[1].wrappers

\* C31: every @container rule that was transformed is emitted as an at-rule
\* whose rule list is the reset rule followed by the rewritten rules of the
\* container rule's list, in their order.
C31_WrapperIsResetRuleThenRules ==
    Transpiled =>
        \A i \in DOMAIN Wrappers :
            LET rulesOf == RulesOf(SheetDepths, i)
            IN  /\ sheetOutput[1].out[i].name = "media"
                /\ Len(Wrappers[i]) = Len(BLOCK_PREFIX) + Len(rulesOf)
                /\ SubSeq(Wrappers[i], 1, Len(BLOCK_PREFIX)) = BLOCK_PREFIX
                /\ \A k \in 1..Len(rulesOf) :
                       Wrappers[i][Len(BLOCK_PREFIX) + k]
                           = sheetOutput[1].out[rulesOf[k]]

\* the uids of the descriptors of the list
DescriptorUids ==
    {QueryDescriptors[k].uid : k \in 1..Len(QueryDescriptors)}

\* C34: the parent of every descriptor of the list is null or a descriptor of
\* the list, also when an enclosing @container rule was left untransformed
\* because of a selector that is not supported.
C34_ParentsAreInTheList ==
    Transpiled =>
        \A k \in 1..Len(QueryDescriptors) :
            \/ QueryDescriptors[k].parent = NoParent
            \/ QueryDescriptors[k].parent \in DescriptorUids

----------------------------------------------------------------------------
(* SpecSheets: the stylesheets of a link element and a style element.  A     *)
(* run is one call of connected(); its asynchronous function is split at    *)
(* its awaits, and every other callback can run between two of its steps.   *)

MaxRuns == 3

SheetNodes == {"link", "style"}

\* the positions of the asynchronous function of connected(): awaiting
\* fetch, awaiting response.text(), text() resolved and the continuation
\* queued, awaiting the result of registerStyleSheet, done (href or innerHTML
\* written), the image loaded, and the promise rejected by the abort
RunPositions ==
    {"fetch", "text", "resolved", "registered", "done", "loaded", "rejected"}

\* abortedAt is the position at which the signal was aborted, "" before
Run(node, position) ==
    [node |-> node, pc |-> position, aborted |-> FALSE, registered |-> FALSE,
     abortedAt |-> ""]

RunIds == 1..Len(runs)

\* a dispose that would clear the registry
disposeAll(map, node) == [n \in DOMAIN map |-> 0]

\* queryDescriptorMap.delete(node)
dispose(map, node) == [map EXCEPT ![node] = 0]

InitSheets ==
    /\ EngineUnused
    /\ OthersUnused
    /\ SelectorUnused
    /\ chainStyles = <<>> /\ chainStates = <<>>
    /\ sfInput = DefaultStyle /\ sfOutput = <<>>
    /\ TransformUnused
    /\ ConditionUnused
    /\ runs = <<>>
    /\ connected = [n \in SheetNodes |-> FALSE]
    /\ controller = [n \in SheetNodes |-> 0]
    /\ styleSheet = [n \in SheetNodes |-> 0]
    /\ ownerDescriptors = [n \in SheetNodes |-> 0]
    /\ content = [n \in SheetNodes |-> 0]
    /\ scheduled = <<>>

sheetFrame ==
    UNCHANGED <<chainStyles, chainStates, sfInput, sfOutput, selVars,
                transformVars, condVars, laterVars, engineVars>>

\* instance.connect(): connected() of the controller, then scheduleUpdate().
\* The function of a link stops at the fetch; the function of a style
\* element runs the body of registerStyleSheet before its first await.
Connect(n) ==
    /\ ~connected[n]
    /\ Len(runs) < MaxRuns
    /\ connected' = [connected EXCEPT ![n] = TRUE]
    /\ controller' = [controller EXCEPT ![n] = Len(runs) + 1]
    /\ IF n = "link"
       THEN /\ runs' = Append(runs, Run(n, "fetch"))
            /\ ownerDescriptors' = ownerDescriptors
            /\ scheduled' = <<"connect">>
       ELSE /\ runs' = Append(runs, [Run(n, "registered") EXCEPT
                                        !.registered = TRUE])
            /\ ownerDescriptors' =
                   [ownerDescriptors EXCEPT ![n] = Len(runs) + 1]
            /\ scheduled' = <<"registerStyleSheet", "connect">>
    /\ UNCHANGED <<styleSheet, content>>
    /\ sheetFrame

\* the mutation observer callback for a removed element: disconnected() of
\* the controller aborts the signal, which rejects a pending fetch or
\* text(), and disposes this.styleSheet; then scheduleUpdate()
Disconnect(n) ==
    /\ connected[n]
    /\ connected' = [connected EXCEPT ![n] = FALSE]
    /\ runs' = IF controller[n] = 0 THEN runs
               ELSE [runs EXCEPT
                       ![controller[n]].aborted = TRUE,
                       ![controller[n]].abortedAt = runs[controller[n]].pc,
                       ![controller[n]].pc =
                           IF @ \in {"fetch", "text"} THEN "rejected" ELSE @]
    /\ controller' = [controller EXCEPT ![n] = 0]
    /\ IF styleSheet[n] # 0 /\ runs[styleSheet[n]].registered
       THEN /\ ownerDescriptors' = dispose(ownerDescriptors, n)
            /\ scheduled' = <<"dispose", "mutation">>
       ELSE /\ ownerDescriptors' = ownerDescriptors
            /\ scheduled' = <<"mutation">>
    /\ styleSheet' = [styleSheet EXCEPT ![n] = 0]
    /\ UNCHANGED content
    /\ sheetFrame

\* fetch resolves; the function calls response.text()
FetchResolves(r) ==
    /\ runs[r].pc = "fetch"
    /\ runs' = [runs EXCEPT ![r].pc = "text"]
    /\ scheduled' = <<>>
    /\ UNCHANGED <<connected, controller, styleSheet, ownerDescriptors, content>>
    /\ sheetFrame

\* the body has been read: text() resolves and the continuation is queued
TextResolves(r) ==
    /\ runs[r].pc = "text"
    /\ runs' = [runs EXCEPT ![r].pc = "resolved"]
    /\ scheduled' = <<>>
    /\ UNCHANGED <<connected, controller, styleSheet, ownerDescriptors, content>>
    /\ sheetFrame

\* the continuation after text(): the body of registerStyleSheet
Register(r) ==
    /\ runs[r].pc = "resolved"
    /\ IF ~runs[r].aborted
       THEN /\ runs' = [runs EXCEPT ![r].pc = "registered",
                                    ![r].registered = TRUE]
            /\ ownerDescriptors' =
                   [ownerDescriptors EXCEPT ![runs[r].node] = r]
            /\ scheduled' = <<"registerStyleSheet">>
       ELSE /\ runs' = [runs EXCEPT ![r].pc = "registered"]
            /\ ownerDescriptors' = ownerDescriptors
            /\ scheduled' = <<>>
    /\ UNCHANGED <<connected, controller, styleSheet, content>>
    /\ sheetFrame

\* the continuation after registerStyleSheet: this.styleSheet is assigned
\* and the rewritten source is written to href (link) or innerHTML (style,
\* followed by refresh())
Finish(r) ==
    /\ runs[r].pc = "registered"
    /\ runs' = [runs EXCEPT ![r].pc =
                   IF runs[r].node = "link" THEN "done" ELSE "loaded"]
    /\ styleSheet' = [styleSheet EXCEPT ![runs[r].node] = r]
    /\ content' = [content EXCEPT ![runs[r].node] = r]
    /\ scheduled' = IF runs[r].node = "link" THEN <<>> ELSE <<"refresh">>
    /\ UNCHANGED <<connected, controller, ownerDescriptors>>
    /\ sheetFrame

\* img.onload / img.onerror of a link: refresh()
ImageLoaded(r) ==
    /\ runs[r].pc = "done"
    /\ runs' = [runs EXCEPT ![r].pc = "loaded"]
    /\ scheduled' = <<"refresh">>
    /\ UNCHANGED <<connected, controller, styleSheet, ownerDescriptors, content>>
    /\ sheetFrame

NextSheets ==
    \/ \E n \in SheetNodes : Connect(n)
    \/ \E n \in SheetNodes : Disconnect(n)
    \/ \E r \in RunIds : FetchResolves(r)
    \/ \E r \in RunIds : TextResolves(r)
    \/ \E r \in RunIds : Register(r)
    \/ \E r \in RunIds : Finish(r)
    \/ \E r \in RunIds : ImageLoaded(r)

SpecSheets == InitSheets /\ [][NextSheets]_vars

----------------------------------------------------------------------------
(* Claims about the stylesheet controllers (SpecSheets)                      *)

\* the run was aborted while its fetch or its registration was in flight
AbortedInFlight(r) ==
    runs[r].abortedAt \in {"fetch", "text", "resolved", "registered"}

\* C17: after a link element was disconnected while its fetch or its
\* registration was in flight, under every interleaving no descriptors of
\* that run are registered for the element and its href is not replaced by
\* the rewritten stylesheet of that run.
C17_AbortLeavesNothingBehind ==
    \A r \in RunIds :
        (runs[r].node = "link" /\ AbortedInFlight(r)) =>
            /\ ownerDescriptors["link"] # r
            /\ content["link"] # r

NoRegistrationPending ==
    \A r \in RunIds : runs[r].pc \in {"done", "loaded", "rejected"}

\* C35: whenever no asynchronous registration step is pending, the registry
\* holds entries only for the link and style elements that are connected: a
\* disconnected element leaves no entry behind, under every interleaving of
\* connected(), the awaited registration and disconnected().
C35_RegistryHoldsConnectedOwnersOnly ==
    NoRegistrationPending =>
        \A n \in SheetNodes : ownerDescriptors[n] # 0 => connected[n]

----------------------------------------------------------------------------
(* Claims about the attribute writes of the update pass (Spec)               *)

\* the mutation records the step queues for the uid attributes: one for
\* every setAttribute, and one for a removeAttribute that removed a value
AttributeWrites ==
    IF pc = "pass" /\ Len(records') > Len(records)
    THEN SelectSeq(SubSeq(records', Len(records) + 1, Len(records')),
                   LAMBDA entry : entry.attributeName \in {"child", "self"})
    ELSE <<>>

\* C19: update() writes or removes a uid attribute only when the new
\* serialized uid list differs from the current value of the attribute.
C19_AttributeWrittenOnlyWhenChanged ==
    [][\A k \in DOMAIN AttributeWrites :
          LET entry == AttributeWrites[k]
              newValue == IF entry.attributeName = "child"
                          THEN attrs'[entry.target].child
                          ELSE attrs'[entry.target].self
          IN  newValue # entry.oldValue
      ]_vars

\* no pass is running, no record is queued and no update is scheduled
Quiescent == pc = "idle" /\ queue = <<>> /\ records = <<>> /\ ~resizePending

\* C33: if the inputs of the engine (styles, sizes, classes, stylesheets,
\* resize notifications) stop changing, then after finitely many passes no
\* update is scheduled and no attribute is written any more: either the
\* inputs change again and again, or from some point on the engine is idle
\* with nothing pending.
C33_QuiescenceWhenInputsStop ==
    []<><<InputStep>>_vars \/ <>[]Quiescent

\* the engine is idle with nothing pending after a pass that followed its own
\* attribute writes: the pass before wrote the uid attribute of element 2
C33_Witness ==
    /\ Quiescent
    /\ stablePass
    /\ envBudget = 0
    /\ queryDescriptorMap # <<>>
    /\ \E e \in Elements : attrs[e].self # <<>>

----------------------------------------------------------------------------
(* SpecCondition: parseMediaCondition on a list of component values          *)

MaxCondTokens == 7

\* a component value; content is the list inside a block
CondNode(type, value, inner) ==
    [type |-> type, value |-> value, content |-> inner]

CondIdent(value) == CondNode("IdentToken", value, <<>>)
CondWhitespace == CondNode("WhitespaceToken", "", <<>>)
CondFunction == CondNode("FunctionNode", "style", <<>>)

\* a block whose source is the left parenthesis
ParenBlock(inner) == CondNode("BlockNode", "(", inner)

\* (width): its content is not a condition
FeatureBlock == ParenBlock(<<CondIdent("width")>>)

\* (style() or style())
OrBlock ==
    ParenBlock(<<CondFunction, CondIdent("or"), CondWhitespace, CondFunction>>)

\* (style() and style() or style())
MixedBlock ==
    ParenBlock(<<CondFunction, CondIdent("and"), CondWhitespace, CondFunction,
                 CondIdent("or"), CondWhitespace, CondFunction>>)

\* the component values of the conditions, by their source text
CondSources ==
    {"and", "or", "not", " ", "style()", "(width)", "(or)", "(mixed)"}

\* the component value the tokenizer makes of a source text
CondNodeOf(source) ==
    CASE source = " " -> CondWhitespace
      [] source = "style()" -> CondFunction
      [] source = "(width)" -> FeatureBlock
      [] source = "(or)" -> OrBlock
      [] source = "(mixed)" -> MixedBlock
      [] OTHER -> CondIdent(source)

\* what the tokenizer can put next to each other: whitespace is one token,
\* and an identifier is followed by whitespace (an identifier followed by a
\* parenthesis is a function)
CanFollow(previous, source) ==
    /\ previous = " " => source # " "
    /\ previous \in {"and", "or", "not"} => source = " "

\* a source list the tokenizer can produce
IsTokenized(sources) ==
    \A i \in 1..(Len(sources) - 1) : CanFollow(sources[i], sources[i + 1])

tokenizeCondition(sources) ==
    [i \in 1..Len(sources) |-> CondNodeOf(sources[i])]

NoAndOr == "null"

\* the expression nodes; left, right and value are <<>> when absent
Expression(type, left, right, value) ==
    [type |-> type, left |-> left, right |-> right, value |-> value]

Literal(node) == Expression("Literal", <<>>, <<>>, <<node>>)

\* the result of a parse function: <<>> for null, and the parser index
Parsed(result, index) == [result |-> result, index |-> index]

RECURSIVE consumeWhitespace(_, _)
consumeWhitespace(nodes, index) ==
    IF at(nodes, index, 1).type = "WhitespaceToken"
    THEN consumeWhitespace(nodes, index + 1)
    ELSE index

RECURSIVE parseQueryCondition(_, _, _, _)
RECURSIVE parseQueryConditionBody(_, _, _, _, _)
RECURSIVE parseQueryInParens(_, _)

parseQueryInParens(nodes, index) ==
    LET node == at(nodes, index, 1)
    IN  IF node.type = "BlockNode"
        THEN IF node.value # "("
             THEN Parsed(<<>>, index + 1)
             ELSE LET maybeContainerCondition ==
                          parseQueryCondition(node.content, ParserStart,
                                              FALSE, NoAndOr)
                  IN  IF maybeContainerCondition.result # <<>>
                      THEN Parsed(maybeContainerCondition.result, index + 1)
                      ELSE Parsed(<<Literal(node)>>, index + 1)
        ELSE IF node.type = "FunctionNode"
        THEN Parsed(<<Literal(node)>>, index + 1)
        ELSE Parsed(<<>>, index + 1)

\* parseQueryCondition; binds says that the connector found is handed to
\* the parse of the right-hand side
parseQueryConditionBody(nodes, index, topLevel, andOr, binds) ==
    LET i0 == consumeWhitespace(nodes, index)
        first == at(nodes, i0, 1)
        negated == first.type = "IdentToken"
        i1 == IF negated THEN consumeWhitespace(nodes, i0 + 1) ELSE i0
        inParens == parseQueryInParens(nodes, i1)
        left == IF negated
                THEN <<Expression("Negate", <<>>, <<>>, inParens.result)>>
                ELSE inParens.result
        i3 == consumeWhitespace(nodes, inParens.index)
        next == at(nodes, i3, 1)
        nextAndOr == IF next.type = "IdentToken"
                     THEN toLowerCase(next.value) ELSE NoAndOr
        i4 == consumeWhitespace(nodes, i3 + 1)
        right == parseQueryConditionBody(
                     nodes, i4, FALSE, IF binds THEN nextAndOr ELSE NoAndOr,
                     binds)
    IN  IF topLevel /\ first.type # "FunctionNode"
               /\ (first.type # "BlockNode" \/ first.value # "(")
        THEN Parsed(<<>>, i0)
        ELSE IF negated /\ toLowerCase(first.value) # "not"
        THEN Parsed(<<>>, i0)
        ELSE IF inParens.result = <<>>
        THEN Parsed(<<>>, inParens.index)
        ELSE IF topLevel /\ next.type # "EOFToken"
        THEN Parsed(<<>>, i3)
        ELSE IF nextAndOr # NoAndOr
        THEN IF (nextAndOr # "and" /\ nextAndOr # "or")
                    \/ (andOr # NoAndOr /\ nextAndOr # andOr)
             THEN Parsed(<<>>, i4)
             ELSE IF right.result = <<>>
             THEN Parsed(<<>>, right.index)
             ELSE Parsed(<<Expression(
                              IF nextAndOr = "and" THEN "Conjunction"
                              ELSE "Disjunction",
                              left, right.result, <<>>)>>,
                         right.index)
        ELSE IF next.type = "EOFToken"
        THEN Parsed(left, i3)
        ELSE Parsed(<<>>, i3)

\* a parseQueryCondition that would not bind the connector of a level
parseQueryConditionUnbound(nodes, index, topLevel, andOr) ==
    parseQueryConditionBody(nodes, index, topLevel, andOr, FALSE)

parseQueryCondition(nodes, index, topLevel, andOr) ==
    parseQueryConditionBody(nodes, index, topLevel, andOr, TRUE)

consumeMediaCondition(nodes, index) ==
    parseQueryCondition(nodes, index, FALSE, NoAndOr)

parseMediaCondition(nodes) == consumeMediaCondition(nodes, ParserStart).result

InitCondition ==
    /\ EngineUnused
    /\ OthersUnused
    /\ SelectorUnused
    /\ chainStyles = <<>> /\ chainStates = <<>>
    /\ sfInput = DefaultStyle /\ sfOutput = <<>>
    /\ TransformUnused
    /\ SheetsUnused
    /\ ConditionUnused

\* one call of parseMediaCondition on a tokenized condition
ApplyParseMediaCondition ==
    /\ condOutput = <<>>
    /\ \E n \in 0..MaxCondTokens :
           \E sources \in [1..n -> CondSources] :
               /\ IsTokenized(sources)
               /\ condInput' = <<tokenizeCondition(sources)>>
               /\ condOutput' = <<parseMediaCondition(tokenizeCondition(sources))>>
    /\ UNCHANGED <<chainStyles, chainStates, sfInput, sfOutput,
                   selVars, transformVars, sheetVars, laterVars, engineVars>>

NextCondition == ApplyParseMediaCondition

SpecCondition == InitCondition /\ [][NextCondition]_vars

----------------------------------------------------------------------------
(* Claims about parseMediaCondition (SpecCondition)                          *)

ConditionParsed == condOutput # <<>>

IsConnector(node, value) ==
    node.type = "IdentToken" /\ toLowerCase(node.value) = value

\* the list uses both connectors at its own level
Mixes(nodes) ==
    /\ \E i \in DOMAIN nodes : IsConnector(nodes[i], "and")
    /\ \E i \in DOMAIN nodes : IsConnector(nodes[i], "or")

\* the list, or the content of one of its parenthesized blocks, uses both
MixesAtSomeLevel(nodes) ==
    \/ Mixes(nodes)
    \/ \E i \in DOMAIN nodes :
           nodes[i].type = "BlockNode" /\ Mixes(nodes[i].content)

WithoutWhitespace(nodes) ==
    SelectSeq(nodes, LAMBDA node : node.type # "WhitespaceToken")

IsOperand(node) == node.type \in {"FunctionNode", "BlockNode"}

\* operands joined by one connector, used any number of times
SingleConnectorLevel(nodes) ==
    LET core == WithoutWhitespace(nodes)
    IN  /\ Len(core) % 2 = 1
        /\ \A i \in DOMAIN core : i % 2 = 1 => IsOperand(core[i])
        /\ \E connector \in {"and", "or"} :
               \A i \in DOMAIN core :
                   i % 2 = 0 => IsConnector(core[i], connector)

\* C20 as stated: null for every condition that uses both connectors at
\* one nesting level, at the top or inside parentheses, and a tree for a
\* level with a single connector whose parenthesized parts may use another.
C20_EveryMixedLevelRejected ==
    ConditionParsed =>
        /\ MixesAtSomeLevel(condInput[1]) => condOutput[1] = <<>>
        /\ (SingleConnectorLevel(condInput[1])
                /\ ~MixesAtSomeLevel(condInput[1])) => condOutput[1] # <<>>

\* C20: parseMediaCondition returns null when the list it is handed uses
\* both connectors at its own level, and a tree when that level joins its
\* operands with a single connector, whatever the parenthesized operands
\* hold; a parenthesized block whose content uses both connectors is not
\* rejected but kept as a literal.
C20_MixedTopLevelRejected ==
    ConditionParsed =>
        /\ Mixes(condInput[1]) => condOutput[1] = <<>>
        /\ SingleConnectorLevel(condInput[1]) => condOutput[1] # <<>>
        /\ \A i \in DOMAIN condInput[1] :
               (SingleConnectorLevel(condInput[1])
                    /\ Len(WithoutWhitespace(condInput[1])) = 1
                    /\ condInput[1][i].type = "BlockNode"
                    /\ Mixes(condInput[1][i].content)) =>
                        condOutput[1] = <<Literal(condInput[1][i])>>

\* style() and style() or style() is rejected
C20_Witness ==
    /\ ConditionParsed
    /\ condInput[1] =
           tokenizeCondition(<<"style()", "and", " ", "style()", "or", " ",
                               "style()">>)
    /\ condOutput[1] = <<>>

\* a not stands right after a connector, whitespace aside
NotFollowsConnector(nodes) ==
    LET core == WithoutWhitespace(nodes)
    IN  \E i \in 2..Len(core) :
            /\ IsConnector(core[i], "not")
            /\ IsConnector(core[i - 1], "and") \/ IsConnector(core[i - 1], "or")

\* [not]? <in-parens> ((and|or) <in-parens>)*, whitespace aside
MatchesConditionGrammar(nodes) ==
    LET core == WithoutWhitespace(nodes)
        body == IF core # <<>> /\ IsConnector(core[1], "not")
                THEN Tail(core) ELSE core
    IN  /\ Len(body) % 2 = 1
        /\ \A i \in DOMAIN body :
               IF i % 2 = 1 THEN IsOperand(body[i])
               ELSE IsConnector(body[i], "and") \/ IsConnector(body[i], "or")

\* C26: parseMediaCondition returns a tree only for a list of the form
\* [not]? <in-parens> ((and|or) <in-parens>)*, returns a tree for every such
\* list that uses one connector, and returns null for a list in which a not
\* follows a connector, as in (a) and not (b).
C26_NotOnlyLeadsTheCondition ==
    ConditionParsed =>
        /\ condOutput[1] # <<>> => MatchesConditionGrammar(condInput[1])
        /\ (MatchesConditionGrammar(condInput[1]) /\ ~Mixes(condInput[1]))
               => condOutput[1] # <<>>
        /\ NotFollowsConnector(condInput[1]) => condOutput[1] = <<>>

----------------------------------------------------------------------------
(* SpecResize: the resizeObserver callback of the engine that sorts the     *)
(* resized instances by depth and queues its DOM writes (engine.ts, the     *)
(* initializePolyfill with queueMutation).  The document is the fixed tree  *)
(* RzParentOf, every node an HTMLElement with an instance.  The state of a  *)
(* node is the list of the box widths from the root element down to it, as  *)
(* get() derives a state from the state of the parent and the own styles.   *)
(* The callback is split at the calls of resize(), which nothing can        *)
(* interleave.                                                              *)

\* changes of a box the environment makes in SpecResize
MaxBoxChanges == 2

\* RzParentOf[n] is the parentNode of node n, the root element being 0
RzParentOf == <<0, 1, 0>>

RzNodes == 0..Len(RzParentOf)

BoxWidths == {1, 2}

\* node.childNodes, in document order
childNodes(node) ==
    SelectSeq([i \in 1..Len(RzParentOf) |-> i], LAMBDA c : RzParentOf[c] = node)

RECURSIVE depth(_)
\* instance.depth as getOrCreateInstance sets it
depth(node) == IF node = 0 THEN 0 ELSE depth(RzParentOf[node]) + 1

RECURSIVE insertByDepth(_, _)
\* the place a stable sort gives an instance among the sorted ones
insertByDepth(instances, added) ==
    IF instances = <<>> \/ depth(added) < depth(Head(instances))
    THEN <<added>> \o instances
    ELSE <<Head(instances)>> \o insertByDepth(Tail(instances), added)

RECURSIVE sortInstances(_)
sortInstances(instances) ==
    IF instances = <<>> THEN <<>>
    ELSE insertByDepth(sortInstances(SubSeq(instances, 1, Len(instances) - 1)),
                       instances[Len(instances)])

\* the instances in the order of the entries
keepEntryOrder(instances) == instances

\* .sort((a, b) => a.depth - b.depth)
sortByDepth(instances) == sortInstances(instances)

RECURSIVE get(_, _)
\* LayoutStateManager.get() of the node: cs is #cachedState of every node
get(node, cs) ==
    IF cs[node] # <<>>
    THEN cs
    ELSE IF node = 0
         THEN [cs EXCEPT ![node] = <<<<boxWidth[node]>>>>]
         ELSE LET cs1 == get(RzParentOf[node], cs)
              IN  [cs1 EXCEPT ![node] =
                      <<Append(cs1[RzParentOf[node]][1], boxWidth[node])>>]

\* the callback of a queued write: what it sets on which node
Callback(node, property, value) ==
    [node |-> node, property |-> property, value |-> value]

\* callback(): the write is made; the callback of resize() reads
\* parentState.get() when it runs
call(callback, m) ==
    LET cs == IF callback.property = "style" /\ callback.node # 0
              THEN get(RzParentOf[callback.node], m.cachedState)
              ELSE m.cachedState
    IN  [m EXCEPT !.cachedState = cs,
                  !.dom[callback.node][callback.property] = <<callback.value>>,
                  !.applied = Append(@, callback)]

\* queueMutation with the callback made at once
queueMutationNever(callback, m) == call(callback, m)

\* queueMutation(callback)
queueMutation(callback, m) ==
    IF m.shouldQueueMutations
    THEN [m EXCEPT !.pendingMutations = Append(@, callback)]
    ELSE call(callback, m)

RECURSIVE parentResize(_, _)
RECURSIVE parentResizeAll(_, _)

\* instance.parentResize() of the node; updateAttributes computes the
\* attributes from the state of the parent before it queues the write
parentResize(node, m) ==
    LET m1 == [m EXCEPT !.cachedState[node] = <<>>]
        cs == get(RzParentOf[node], m1.cachedState)
        m2 == queueMutation(Callback(node, "attribute", cs[RzParentOf[node]][1]),
                            [m1 EXCEPT !.cachedState = cs])
        m3 == IF node \notin m2.pendingResize
              THEN parentResizeAll(childNodes(node), m2)
              ELSE m2
    IN  [m3 EXCEPT !.due = @ \cup {node}]

parentResizeAll(children, m) ==
    IF children = <<>> THEN m
    ELSE parentResizeAll(Tail(children), parentResize(Head(children), m))

\* instance.resize() of the node
resize(node, m) ==
    LET m1 == [m EXCEPT !.cachedState[node] = <<>>]
        cs == get(node, m1.cachedState)
        m2 == queueMutation(Callback(node, "style", cs[node][1]),
                            [m1 EXCEPT !.cachedState = cs])
    IN  parentResizeAll(childNodes(node), m2)

RECURSIVE callAll(_, _)
\* pendingMutations.forEach(callback => callback())
callAll(callbacks, m) ==
    IF callbacks = <<>> THEN m
    ELSE callAll(Tail(callbacks), call(Head(callbacks), m))

\* the variables SpecResize leaves alone
notResizeVars ==
    <<engineVars, chainStyles, chainStates, sfInput, sfOutput, selVars,
      transformVars, sheetVars, condVars, treeVars, displayVars, declVars>>

\* what a handler of SpecResize may change
rzFrame ==
    [cachedState |-> cachedState, pendingMutations |-> pendingMutations,
     dom |-> dom, applied |-> applied, due |-> due,
     shouldQueueMutations |-> shouldQueueMutations,
     pendingResize |-> pendingResize]

\* the sequences that hold every node of the set once
Orders(set) ==
    {o \in [1..Cardinality(set) -> set] :
        \A i, j \in 1..Cardinality(set) : i # j => o[i] # o[j]}

\* the state after initializePolyfill: every instance is connected, and
\* connect() has observed every element, so every element is to be reported
InitResize ==
    /\ EngineUnused
    /\ SelectorUnused
    /\ TransformUnused
    /\ SheetsUnused
    /\ ConditionUnused
    /\ TreeUnused
    /\ DisplayUnused
    /\ DeclarationsUnused
    /\ chainStyles = <<>> /\ chainStates = <<>>
    /\ sfInput = DefaultStyle /\ sfOutput = <<>>
    /\ boxWidth = [n \in RzNodes |-> 1]
    /\ due = RzNodes
    /\ entries = <<>>
    /\ sorted = <<>>
    /\ shouldQueueMutations = FALSE
    /\ pendingMutations = <<>>
    /\ pendingResize = {}
    /\ cachedState = [n \in RzNodes |-> <<>>]
    /\ dom = [n \in RzNodes |-> [attribute |-> <<>>, style |-> <<>>]]
    /\ applied = <<>>
    /\ handled = <<>>
    /\ boxBudget = MaxBoxChanges

\* the resizeObserver callback up to the first resize(): the ResizeObserver
\* reports some of the elements it has to report, in the order it keeps
ResizeCallbackBegin ==
    /\ entries = <<>> /\ due # {}
    /\ \E targets \in SUBSET due : \E order \in Orders(targets) :
        /\ targets # {}
        /\ entries' = order
        /\ pendingResize' = targets
        /\ sorted' = sortByDepth(order)
        /\ due' = due \ targets
    /\ shouldQueueMutations' = TRUE
    /\ applied' = <<>>
    /\ handled' = <<>>
    /\ UNCHANGED <<boxWidth, pendingMutations, cachedState, dom, boxBudget>>
    /\ UNCHANGED notResizeVars

\* instance.resize() of the next sorted instance
ResizeInstance ==
    /\ entries # <<>> /\ sorted # <<>>
    /\ LET node == Head(sorted)
           m == resize(node, rzFrame)
       IN  /\ cachedState' = m.cachedState
           /\ pendingMutations' = m.pendingMutations
           /\ dom' = m.dom
           /\ applied' = m.applied
           /\ due' = m.due
           /\ handled' = Append(handled, [node |-> node,
                                          state |-> get(node,
                                              [cachedState EXCEPT ![node] = <<>>])[node][1]])
    /\ sorted' = Tail(sorted)
    /\ UNCHANGED <<boxWidth, entries, shouldQueueMutations, pendingResize,
                   boxBudget>>
    /\ UNCHANGED notResizeVars

\* the finally block of the resizeObserver callback
ResizeCallbackEnd ==
    /\ entries # <<>> /\ sorted = <<>>
    /\ LET m == callAll(pendingMutations,
                        [rzFrame EXCEPT !.shouldQueueMutations = FALSE,
                                        !.pendingResize = {}])
       IN  /\ cachedState' = m.cachedState
           /\ dom' = m.dom
           /\ applied' = m.applied
    /\ pendingResize' = {}
    /\ shouldQueueMutations' = FALSE
    /\ pendingMutations' = <<>>
    /\ entries' = <<>>
    /\ UNCHANGED <<boxWidth, due, sorted, handled, boxBudget>>
    /\ UNCHANGED notResizeVars

\* the environment changes the box of an element, which the ResizeObserver
\* then has to report
BoxChange ==
    /\ entries = <<>> /\ boxBudget > 0
    /\ \E n \in RzNodes, w \in BoxWidths :
        /\ boxWidth[n] # w
        /\ boxWidth' = [boxWidth EXCEPT ![n] = w]
        /\ due' = due \cup {n}
    /\ boxBudget' = boxBudget - 1
    /\ UNCHANGED <<entries, sorted, shouldQueueMutations, pendingMutations,
                   pendingResize, cachedState, dom, applied, handled>>
    /\ UNCHANGED notResizeVars

NextResize ==
    \/ ResizeCallbackBegin
    \/ ResizeInstance
    \/ ResizeCallbackEnd
    \/ BoxChange

SpecResize == InitResize /\ [][NextResize]_vars

----------------------------------------------------------------------------
(* Claims about the resizeObserver callback (SpecResize)                    *)

RECURSIVE IsAncestor(_, _)
\* a is a proper ancestor of node d in the document
IsAncestor(a, d) ==
    /\ d # 0
    /\ (RzParentOf[d] = a \/ IsAncestor(a, RzParentOf[d]))

\* the elements of the batch the callback is handling
Resized == {entries[i] : i \in 1..Len(entries)}

\* C21: in a batch of resize entries the instances are handled in ascending
\* depth: when resize() has run on a resized element, it has run before on
\* every resized ancestor of it, and the state the element computed starts
\* with the state that ancestor computed in its own resize().
C21_AncestorsResizeFirst ==
    \A j \in 1..Len(handled) : \A a \in Resized :
        IsAncestor(a, handled[j].node)
            => \E i \in 1..(j - 1) :
                   /\ handled[i].node = a
                   /\ SubSeq(handled[j].state, 1, Len(handled[i].state))
                          = handled[i].state

\* the entries named a descendant before its ancestor, the box of the
\* ancestor had changed, and resize() has run on both
C21_Witness ==
    /\ entries # <<>> /\ Len(handled) = Len(entries)
    /\ \E i, j \in 1..Len(entries) :
           /\ i < j
           /\ IsAncestor(entries[j], entries[i])
           /\ boxWidth[entries[j]] = 2

\* C22: while the resizeObserver callback runs its resize handlers no
\* queued write is applied; the finally block applies the queued writes
\* once each in the order they were queued and leaves the queue empty; with
\* no callback running, queueMutation makes the write at once.
C22_WritesFlushedAfterPass ==
    /\ [](/\ shouldQueueMutations => applied = <<>>
          /\ ~shouldQueueMutations =>
                /\ pendingMutations = <<>>
                /\ \A n \in RzNodes, property \in {"attribute", "style"} :
                       LET callback == Callback(n, property, <<boxWidth[n]>>)
                           m == queueMutation(callback, rzFrame)
                       IN  /\ m.dom[n][property] = <<callback.value>>
                           /\ m.applied = Append(applied, callback)
                           /\ m.pendingMutations = <<>>)
    /\ [][(entries # <<>> /\ entries' = <<>>)
              => /\ applied' = pendingMutations
                 /\ pendingMutations' = <<>>
                 /\ \A i \in 1..Len(pendingMutations) :
                        LET callback == pendingMutations[i]
                        IN  (\A k \in (i + 1)..Len(pendingMutations) :
                                 \/ pendingMutations[k].node # callback.node
                                 \/ pendingMutations[k].property # callback.property)
                                => dom'[callback.node][callback.property]
                                       = <<callback.value>>]_vars

\* a callback that handled an element and its descendant has ended, and the
\* writes its handlers queued have been applied
C22_Witness ==
    /\ entries = <<>> /\ Len(handled) >= 2 /\ Len(applied) >= 3
    /\ \E i, j \in 1..Len(applied) :
           i < j /\ applied[i].property = "style" /\ applied[j].property = "attribute"

----------------------------------------------------------------------------
(* Claims about the mutationObserver callback of the engine (Spec)          *)

\* the record was queued by a write of updateAttributes
IsUidAttributeRecord(entry) == entry.attributeName \in {"child", "self"}

\* the callback does not skip the record
SchedulesUpdate(entry) == getAttribute(entry) # entry.oldValue

\* C23: a mutation record that the engine's own write of a uid attribute
\* caused never schedules an update: a run of the mutationObserver callback
\* in which no other record schedules one leaves no update scheduled.
C23_OwnAttributeWriteNeverSchedules ==
    [][(/\ records # <<>> /\ records' = <<>>
        /\ ~resizePending
        /\ \A i \in 1..Len(records) :
               SchedulesUpdate(records[i]) => IsUidAttributeRecord(records[i]))
           => ~resizePending']_vars

\* the memoized state function of the element runs in this step
MemoCalled(e) == e \notin frameCache /\ e \in frameCache'

\* every style property the memoized value recorded re-reads to its value
StyleDepsReproduced(e) ==
    \A p \in DOMAIN memo[e].deps : computedStyle[e][p] = memo[e].deps[p]

\* a previous result exists and every dependency re-reads to what was
\* recorded: the style properties, and the state of the parent (for the root
\* element the descriptor array), which is re-read through its own memoized
\* function
MemoStillValid(e) ==
    /\ memo[e].id # 0
    /\ StyleDepsReproduced(e)
    /\ IF e = Root THEN memo[e].qdId = qdMemo'.id
       ELSE memo[e].parentId = memo'[ParentOf[e]].id

\* the style properties a computation of the state reads: those of the size
\* only on the root element and on a valid container
PropertiesRead(e, state) ==
    LayoutProps
        \cup (IF e = Root \/ (state.isQueryContainer
                              /\ EligibleForSizeContainment \in state.displayFlags)
              THEN SizeProps(computedStyle[e]) ELSE {})

\* C29: a call of the memoized state function of an element returns the
\* result it holds, and leaves the recorded dependencies as they are,
\* exactly when it holds a result and every recorded dependency re-reads to
\* the recorded value; otherwise the result is a new object and the recorded
\* dependencies are exactly what the new computation read, with the values read.
C29_MemoReusedIffDependenciesReproduce ==
    [][\A e \in Elements :
          MemoCalled(e) =>
              IF MemoStillValid(e)
              THEN memo'[e] = memo[e]
              ELSE /\ memo'[e].id \notin {0, memo[e].id}
                   /\ memo'[e].deps =
                          [p \in PropertiesRead(e, memo'[e].value[1])
                              |-> computedStyle[e][p]]
                   /\ IF e = Root THEN memo'[e].qdId = qdMemo'.id
                      ELSE memo'[e].parentId = memo'[ParentOf[e]].id]_vars

\* in a pass that began with no input changed, the state function of
\* element 1 has run and returned the state an earlier pass recomputed
C29_Witness ==
    /\ pc = "pass" /\ stablePass
    /\ 1 \in frameCache
    /\ memo[1].id = 2
    /\ prevLayoutState[1] = 2

\* how often x is in the list
Occurrences(list, x) == Cardinality({i \in DOMAIN list : list[i] = x})

\* what computeQueryCondition closes over when the state of the element is
\* computed from the document as it is now
QueryEnvOf(e) ==
    LET styles == computedStyle[e]
        layoutData == computeLayoutData(styles)
    IN  [containerNames |-> layoutData.containerNames,
         queryContext |->
             [sizeFeatures |-> computeSizeFeatures(layoutData,
                                                   computeSizeData(styles))],
         parentConditions |-> StateOf(ParentOf[e]).conditions]

\* the orders the descriptor list can have
UidOrders == Orders(Uids)

EachUidOnce(list) == \A uid \in Uids : Occurrences(list, uid) = 1

IsValidContainerState(state) ==
    state.isQueryContainer /\ EligibleForSizeContainment \in state.displayFlags

\* C30: within one pass the memoized state function of an element, and so
\* the computation of its state, runs at most once; and the computation of
\* the state of a container evaluates the condition of each descriptor at
\* most once, whatever the order of the descriptor list is, a descriptor
\* being reached from the list and as the parent of nested descriptors.
C30_OnceEachPerPass ==
    /\ \A e \in Elements : Occurrences(stateCalls, e) <= 1
    /\ \A e \in frameCache \ {Root} :
           (envSincePass = "none" /\ IsValidContainerState(StateOf(e))) =>
               /\ StateOf(e).conditions
                      = computeAllQueryStates(QueryEnvOf(e), EmptyConditions,
                                              StateOf(e).queryDescriptors)
               /\ \A order \in UidOrders :
                      EachUidOnce(evaluatedByAll(QueryEnvOf(e), EmptyConditions,
                                                 order))

\* a pass has run the state function of every element once; on element 1
\* the nested descriptor c3 comes first in the list and reaches c2 and c1,
\* which the list holds as well
C30_Witness ==
    /\ envSincePass = "none"
    /\ frameCache = Elements
    /\ \A e \in Elements : Occurrences(stateCalls, e) = 1
    /\ IsValidContainerState(StateOf(1))
    /\ StateOf(1).queryDescriptors = AllQueryDescriptors
    /\ HasContainer(StateOf(1), "c3")
    /\ evaluatedByAll(QueryEnvOf(1), EmptyConditions, AllQueryDescriptors)
           = <<"c3", "c2", "c1", "c4">>

----------------------------------------------------------------------------
(* SpecTree: the instances of the engine while scripts of the page insert,  *)
(* remove and move nodes (engine.ts, the initializePolyfill with update()). *)
(* Node 0 is the root element.  A removed node stays observed until the     *)
(* mutationObserver callback runs, as the transient observers of a          *)
(* MutationObserver arrange.  What update() writes depends on layout states *)
(* that are not modelled here: it may set or remove the uid attributes and  *)
(* the custom unit properties of its node.  An instance is the number of    *)
(* instances created for its node so far.                                   *)

\* changes of the document the environment makes in SpecTree
MaxTreeChanges == 3

TreeNodes == {0, 1, 2, 3}

\* the nodes below the root element, in document order among siblings
TreeElements == <<1, 2, 3>>

RECURSIVE IsInclusiveAncestor(_, _, _)
\* a is node n or an ancestor of it, p giving the parentNode of every node
IsInclusiveAncestor(a, n, p) ==
    \/ a = n
    \/ (p[n] # <<>> /\ IsInclusiveAncestor(a, p[n][1], p))

\* the node and its descendants
Subtree(n, p) == {d \in TreeNodes : IsInclusiveAncestor(n, d, p)}

\* node.isConnected
InDocument(n) == IsInclusiveAncestor(0, n, parentNode)

\* a mutation of the node is reported to the mutationObserver
Observed(n) ==
    \E a \in TreeNodes :
        /\ IsInclusiveAncestor(a, n, parentNode)
        /\ (a = 0 \/ a \in transient)

\* node.childNodes
treeChildNodes(node) ==
    SelectSeq(TreeElements, LAMBDA c : parentNode[c] = <<node>>)

\* a MutationRecord: removed is <<>> or holds the node of removedNodes
MutationRecord(type, target, removed) ==
    [type |-> type, target |-> target, removedNodes |-> removed]

\* the record a write of the engine queues when it changes the node
writeRecord(node, before, after) ==
    IF before # after /\ InDocument(node)
    THEN <<MutationRecord("attributes", node, <<>>)>>
    ELSE <<>>

\* what a callback of SpecTree may change
treeFrame ==
    [instance |-> instance, created |-> created, marked |-> marked,
     records |-> <<>>, pending |-> treePending, threw |-> threw]

RECURSIVE disconnectAll(_, _)
RECURSIVE disconnectChildren(_, _)

\* instance.disconnect() without the loop over node.childNodes
disconnectOwnOnly(node, t) ==
    [t EXCEPT !.marked[node] = FALSE,
              !.records = @ \o writeRecord(node, t.marked[node], FALSE),
              !.instance[node] = 0]

\* instance.disconnect()
disconnect(node, t) ==
    LET t1 == [t EXCEPT !.marked[node] = FALSE,
                        !.records = @ \o writeRecord(node, t.marked[node], FALSE)]
        t2 == disconnectChildren(treeChildNodes(node), t1)
    IN  [t2 EXCEPT !.instance[node] = 0]

\* getInstance(child)?.disconnect()
disconnectAll(node, t) ==
    IF t.instance[node] # 0 THEN disconnect(node, t) ELSE t

disconnectChildren(children, t) ==
    IF children = <<>> THEN t
    ELSE disconnectChildren(Tail(children), disconnectAll(Head(children), t))

RECURSIVE getOrCreateInstance(_, _)
RECURSIVE connectChildren(_, _)

\* getOrCreateInstance(node): the new instance is stored on the node and
\* connect() creates the instances of the children before scheduleUpdate()
getOrCreateInstance(node, t) ==
    IF t.threw \/ t.instance[node] # 0
    THEN t
    ELSE IF node # 0 /\ (parentNode[node] = <<>>
                            \/ t.instance[parentNode[node][1]] = 0)
         THEN [t EXCEPT !.threw = TRUE]
         ELSE LET t1 == [t EXCEPT !.instance[node] = t.created[node] + 1,
                                  !.created[node] = @ + 1]
                  t2 == connectChildren(treeChildNodes(node), t1)
              IN  IF t2.threw THEN t2 ELSE [t2 EXCEPT !.pending = TRUE]

connectChildren(children, t) ==
    IF children = <<>> THEN t
    ELSE connectChildren(Tail(children), getOrCreateInstance(Head(children), t))

\* the removedNodes loop of the mutationObserver callback
disconnectRemoved(entry, t) ==
    IF entry.removedNodes # <<>>
    THEN disconnectAll(entry.removedNodes[1], t)
    ELSE t

\* instance.mutate()
mutate(node, t) ==
    LET t1 == connectChildren(treeChildNodes(node), t)
    IN  IF t1.threw THEN t1 ELSE [t1 EXCEPT !.pending = TRUE]

\* the body of the loop of the mutationObserver callback that ends with
\* getOrCreateInstance(entry.target).mutate(); a record of the model stands
\* for a change of another attribute than the uid attribute
mutationEntryMutate(entry, t) ==
    LET t1 == disconnectRemoved(entry, t)
        t2 == getOrCreateInstance(entry.target, t1)
    IN  IF t2.threw THEN t2 ELSE mutate(entry.target, t2)

\* the body of the loop of the mutationObserver callback for one record; a
\* record of the model stands for a change, so it is never skipped
mutationEntry(entry, t) ==
    [disconnectRemoved(entry, t) EXCEPT !.pending = TRUE]

RECURSIVE mutations(_, _)
\* for (const entry of mutations): an exception ends the callback
mutations(list, t) ==
    IF list = <<>> \/ t.threw THEN t
    ELSE mutations(Tail(list), mutationEntry(Head(list), t))

\* the state after initializePolyfill and some passes: elements 1 and 2 are
\* in the document and have instances, element 3 is not attached
InitTree ==
    /\ EngineUnused
    /\ SelectorUnused
    /\ TransformUnused
    /\ SheetsUnused
    /\ ConditionUnused
    /\ ResizeUnused
    /\ DisplayUnused
    /\ DeclarationsUnused
    /\ chainStyles = <<>> /\ chainStates = <<>>
    /\ sfInput = DefaultStyle /\ sfOutput = <<>>
    /\ parentNode = [n \in TreeNodes |->
                        IF n = 1 THEN <<0>> ELSE IF n = 2 THEN <<1>> ELSE <<>>]
    /\ instance = [n \in TreeNodes |-> IF n = 3 THEN 0 ELSE 1]
    /\ created = [n \in TreeNodes |-> IF n = 3 THEN 0 ELSE 1]
    /\ marked = [n \in TreeNodes |-> FALSE]
    /\ treeRecords = <<>>
    /\ transient = {}
    /\ treePending = TRUE
    /\ treeQueue = <<>>
    /\ treeBudget = MaxTreeChanges
    /\ threw = FALSE

\* the variables SpecTree leaves alone
notTreeVars ==
    <<engineVars, chainStyles, chainStates, sfInput, sfOutput, selVars,
      transformVars, sheetVars, condVars, resizeVars, displayVars, declVars>>

\* a script removes a node from its parent
RemoveNode(n) ==
    /\ treeQueue = <<>> /\ treeBudget > 0
    /\ n # 0 /\ parentNode[n] # <<>>
    /\ parentNode' = [parentNode EXCEPT ![n] = <<>>]
    /\ IF Observed(parentNode[n][1])
       THEN /\ treeRecords' = Append(treeRecords,
                                     MutationRecord("childList", parentNode[n][1], <<n>>))
            /\ transient' = transient \cup {n}
       ELSE UNCHANGED <<treeRecords, transient>>
    /\ treeBudget' = treeBudget - 1
    /\ UNCHANGED <<instance, created, marked, treePending, treeQueue, threw>>
    /\ UNCHANGED notTreeVars

\* a script inserts a node that has no parent into a node outside of it
InsertNode(n, parent) ==
    /\ treeQueue = <<>> /\ treeBudget > 0
    /\ n # 0 /\ parentNode[n] = <<>>
    /\ ~IsInclusiveAncestor(n, parent, parentNode)
    /\ parentNode' = [parentNode EXCEPT ![n] = <<parent>>]
    /\ treeRecords' =
           IF Observed(parent)
           THEN Append(treeRecords, MutationRecord("childList", parent, <<>>))
           ELSE treeRecords
    /\ treeBudget' = treeBudget - 1
    /\ UNCHANGED <<instance, created, marked, transient, treePending, treeQueue,
                   threw>>
    /\ UNCHANGED notTreeVars

\* a script changes an attribute of a node
ChangeAttribute(n) ==
    /\ treeQueue = <<>> /\ treeBudget > 0
    /\ Observed(n)
    /\ treeRecords' = Append(treeRecords, MutationRecord("attributes", n, <<>>))
    /\ treeBudget' = treeBudget - 1
    /\ UNCHANGED <<parentNode, instance, created, marked, transient, treePending,
                   treeQueue, threw>>
    /\ UNCHANGED notTreeVars

\* the mutationObserver callback on the records queued so far
TreeMutationCallback ==
    /\ treeQueue = <<>> /\ treeRecords # <<>>
    /\ LET t == mutations(treeRecords, [treeFrame EXCEPT !.threw = FALSE])
       IN  /\ instance' = t.instance
           /\ created' = t.created
           /\ marked' = t.marked
           /\ treeRecords' = t.records
           /\ treePending' = t.pending
           /\ threw' = (threw \/ t.threw)
    /\ transient' = {}
    /\ UNCHANGED <<parentNode, treeQueue, treeBudget>>
    /\ UNCHANGED notTreeVars

\* the resizeObserver callback up to its call of update() on the root
BeginTreePass ==
    /\ treeQueue = <<>> /\ treeRecords = <<>> /\ treePending
    /\ treePending' = FALSE
    /\ treeQueue' = <<0>>
    /\ UNCHANGED <<parentNode, instance, created, marked, treeRecords, transient,
                   treeBudget, threw>>
    /\ UNCHANGED notTreeVars

\* getOrCreateInstance(child).update() for the node at the head of the queue
TreeUpdate ==
    /\ treeQueue # <<>>
    /\ LET node == Head(treeQueue)
           t == getOrCreateInstance(node, [treeFrame EXCEPT !.threw = FALSE,
                                                            !.records = treeRecords])
       IN  /\ instance' = t.instance
           /\ created' = t.created
           /\ treePending' = t.pending
           /\ threw' = (threw \/ t.threw)
           /\ IF t.threw
              THEN /\ treeQueue' = <<>>
                   /\ UNCHANGED <<marked, treeRecords>>
              ELSE /\ treeQueue' = treeChildNodes(node) \o Tail(treeQueue)
                   /\ \E written \in BOOLEAN :
                        /\ marked' = [marked EXCEPT ![node] = written]
                        /\ treeRecords' =
                               treeRecords \o writeRecord(node, marked[node], written)
    /\ UNCHANGED <<parentNode, transient, treeBudget>>
    /\ UNCHANGED notTreeVars

NextTree ==
    \/ \E n \in TreeNodes : RemoveNode(n)
    \/ \E n, parent \in TreeNodes : InsertNode(n, parent)
    \/ \E n \in TreeNodes : ChangeAttribute(n)
    \/ TreeMutationCallback
    \/ BeginTreePass
    \/ TreeUpdate

SpecTree == InitTree /\ [][NextTree]_vars

----------------------------------------------------------------------------
(* SpecMutate: the same documents and scripts under the engine whose        *)
(* mutationObserver callback asks the instance of the target to mutate and  *)
(* whose resizeObserver callback calls resize() (engine.ts, the             *)
(* initializePolyfill with queueMutation).  A batch of resize entries holds *)
(* one element; what the handlers write is the same for all nodes they      *)
(* visit.                                                                   *)

RECURSIVE mutationsMutate(_, _)
\* for (const entry of mutations): an exception ends the callback
mutationsMutate(list, t) ==
    IF list = <<>> \/ t.threw THEN t
    ELSE mutationsMutate(Tail(list), mutationEntryMutate(Head(list), t))

\* the mutationObserver callback on the records queued so far
MutateCallback ==
    /\ treeRecords # <<>>
    /\ LET t == mutationsMutate(treeRecords, [treeFrame EXCEPT !.threw = FALSE])
       IN  /\ instance' = t.instance
           /\ created' = t.created
           /\ marked' = t.marked
           /\ treeRecords' = t.records
           /\ treePending' = t.pending
           /\ threw' = (threw \/ t.threw)
    /\ transient' = {}
    /\ UNCHANGED <<parentNode, treeQueue, treeBudget>>
    /\ UNCHANGED notTreeVars

RECURSIVE writeAll(_, _, _)
\* the writes of resize() and of the parentResize() calls below it
writeAll(nodes, written, t) ==
    IF nodes = <<>> THEN t
    ELSE LET node == Head(nodes)
         IN  writeAll(Tail(nodes), written,
                      [t EXCEPT !.marked[node] = written,
                                !.records = @ \o writeRecord(node, t.marked[node],
                                                             written)])

\* the resizeObserver callback for an entry of an element that is observed:
\* resize() calls getOrCreateInstance(child).parentResize() down the subtree
ResizeEntry(n) ==
    /\ treeRecords = <<>> /\ treePending
    /\ instance[n] # 0
    /\ \E written \in BOOLEAN :
        LET t1 == connectChildren(treeChildNodes(n),
                                  [treeFrame EXCEPT !.threw = FALSE,
                                                    !.pending = FALSE])
            visited == SelectSeq(<<0>> \o TreeElements,
                                 LAMBDA d : d \in Subtree(n, parentNode))
            t == IF t1.threw THEN t1 ELSE writeAll(visited, written, t1)
        IN  /\ instance' = t.instance
            /\ created' = t.created
            /\ marked' = t.marked
            /\ treeRecords' = t.records
            /\ treePending' = (t.pending \/ treeChildNodes(n) # <<>>)
            /\ threw' = (threw \/ t.threw)
    /\ UNCHANGED <<parentNode, transient, treeQueue, treeBudget>>
    /\ UNCHANGED notTreeVars

NextMutate ==
    \/ \E n \in TreeNodes : RemoveNode(n)
    \/ \E n, parent \in TreeNodes : InsertNode(n, parent)
    \/ \E n \in TreeNodes : ChangeAttribute(n)
    \/ MutateCallback
    \/ \E n \in TreeNodes : ResizeEntry(n)

SpecMutate == InitTree /\ [][NextMutate]_vars

----------------------------------------------------------------------------
(* Claims about the instances of inserted and removed nodes (SpecTree)      *)

\* C24: instance creation never raises 'Expected node to have parent':
\* whatever the page inserts, removes, moves or changes, whenever
\* getOrCreateInstance creates the instance of a node below the root element
\* the parent of the node has an instance.
C24_InstanceCreationNeverThrows == ~threw

\* the step is a run of the mutationObserver callback
IsMutationCallback ==
    /\ treeRecords # <<>> /\ treeQueue = <<>> /\ treeQueue' = <<>>
    /\ treeBudget' = treeBudget

\* C25: the mutationObserver callback leaves no instance, no uid attribute
\* and no custom unit property on a node it is told was removed, nor on any
\* descendant of it; once it has run, only nodes of the document hold an
\* instance; and an instance that a node is given later is a new one.
C25_DetachDestroysSubtreeEntries ==
    /\ [][IsMutationCallback
            => \A i \in 1..Len(treeRecords) :
                   treeRecords[i].removedNodes # <<>>
                       => \A d \in Subtree(treeRecords[i].removedNodes[1], parentNode) :
                              instance'[d] = 0 /\ ~marked'[d]]_vars
    /\ []((\A i \in 1..Len(treeRecords) : treeRecords[i].type # "childList")
            => \A n \in TreeNodes :
                   (instance[n] # 0 \/ marked[n]) => InDocument(n))
    /\ [][\A n \in TreeNodes :
            (instance'[n] # instance[n] /\ instance'[n] # 0)
                => instance[n] = 0 /\ instance'[n] > created[n]]_vars

\* a removed element that carried attributes of the engine, with its child,
\* was attached again and both have their second instance
C25_Witness ==
    /\ instance[1] = 2 /\ instance[2] = 2
    /\ parentNode[2] = <<1>> /\ InDocument(1)
    /\ treeRecords = <<>> /\ treeQueue = <<>>

----------------------------------------------------------------------------
(* SpecDisplay: what the display of an element makes of it.  One call of    *)
(* the display test of either engine, on a computed value of display, a     *)
(* container-type and, for the engine that inherits the flags, the flags    *)
(* of the parent.                                                           *)

\* value.startsWith(prefix), for the display values
startsWith(value, prefix) == DisplayWords[value][1] = prefix

computeValidContainer(displayType) ==
    LET lowerDisplayType == toLowerCase(displayType)
    IN  ~(\/ lowerDisplayType = "none"
          \/ lowerDisplayType = "contents"
          \/ startsWith(lowerDisplayType, "table")
          \/ startsWith(lowerDisplayType, "ruby"))

\* the display flags a parent state can hold
ParentDisplayFlags == {{}, {Enabled}, {Enabled, EligibleForSizeContainment}}

InitDisplay ==
    /\ EngineUnused
    /\ SelectorUnused
    /\ TransformUnused
    /\ SheetsUnused
    /\ ConditionUnused
    /\ ResizeUnused
    /\ TreeUnused
    /\ chainStyles = <<>> /\ chainStates = <<>>
    /\ sfInput = DefaultStyle /\ sfOutput = <<>>
    /\ dispInput = <<>>
    /\ dispOutput = <<>>
    /\ DeclarationsUnused

notDisplayVars ==
    <<engineVars, chainStyles, chainStates, sfInput, sfOutput, selVars,
      transformVars, sheetVars, condVars, resizeVars, treeVars, declVars>>

\* computeLayoutState on one element: the flags of its display, the flags
\* it has below its parent, and whether it is a query container
ApplyComputeDisplayFlags ==
    /\ dispOutput = <<>>
    /\ \E display \in DisplayValues :
       \E containerType \in {"cq-normal", "inline-size", "size"} :
       \E parentDisplayFlags \in ParentDisplayFlags :
           LET own == computeDisplayFlags(display)
               displayFlags == inheritDisplayFlags(parentDisplayFlags, own)
           IN  /\ dispInput' = <<[display |-> display,
                                  containerType |-> containerType,
                                  parentDisplayFlags |-> parentDisplayFlags]>>
               /\ dispOutput' =
                      <<[by |-> "computeDisplayFlags",
                         eligible |-> EligibleForSizeContainment \in own,
                         displayFlags |-> displayFlags,
                         isValidContainer |->
                             isValidContainerOf(
                                 computeContainerType(containerType),
                                 displayFlags)]>>
    /\ UNCHANGED notDisplayVars

\* LayoutStateManager.get() on one element whose container-type is not
\* normal: isValidContainer
ApplyComputeValidContainer ==
    /\ dispOutput = <<>>
    /\ \E display \in DisplayValues :
       \E containerType \in {"inline-size", "size"} :
           LET isValidContainer == computeValidContainer(display)
           IN  /\ dispInput' = <<[display |-> display,
                                  containerType |-> containerType,
                                  parentDisplayFlags |-> {}]>>
               /\ dispOutput' =
                      <<[by |-> "computeValidContainer",
                         eligible |-> isValidContainer,
                         displayFlags |-> {},
                         isValidContainer |-> isValidContainer]>>
    /\ UNCHANGED notDisplayVars

NextDisplay == ApplyComputeDisplayFlags \/ ApplyComputeValidContainer

SpecDisplay == InitDisplay /\ [][NextDisplay]_vars

\* table, inline-table, table-*, ruby, ruby-*, and a ruby with an outer
\* display type
IsTableOrRubyDisplay(display) ==
    \/ display \in {"table", "inline-table", "ruby", "block ruby"}
    \/ /\ Len(DisplayWords[display]) > 1
       /\ DisplayWords[display][1] \in {"table", "ruby"}
       /\ DisplayWords[display][2] = "-"

\* C27: a display value is eligible for size containment exactly when it is
\* not none, not contents and not a table or ruby display type; inline, block
\* and flex are eligible.
C27_EligibleUnlessNoneContentsTableRuby ==
    dispOutput # <<>> =>
        (dispOutput[1].eligible
            <=> /\ dispInput[1].display \notin {"none", "contents"}
                /\ ~IsTableOrRubyDisplay(dispInput[1].display))

----------------------------------------------------------------------------
(* SpecDeclarations: transformDeclarationBlock on the declaration list of   *)
(* one style rule.  A list entry is a declaration [type, name, value,       *)
(* important] or an at-rule; a value is a list of component values.  The    *)
(* stylesheet is one an author wrote or one the transform returned before   *)
(* (a style element that is connected again hands its transformed text to   *)
(* registerStyleSheet), so the declarations the transform makes are among   *)
(* the inputs.                                                              *)

\* the declarations of one list
MaxDeclarations == 2

CUSTOM_PROPERTY_SHORTHAND == "--cq-container"
CUSTOM_PROPERTY_TYPE == "--cq-container-type"
CUSTOM_PROPERTY_NAME == "--cq-container-name"

CUSTOM_UNIT_MAP ==
    [u \in {"cqw", "cqh", "cqi", "cqb"} |->
        CASE u = "cqw" -> "--cq-cqw"
          [] u = "cqh" -> "--cq-cqh"
          [] u = "cqi" -> "--cq-cqi"
          [] u = "cqb" -> "--cq-cqb"]

dimension(value, unit) ==
    [type |-> "DimensionToken", value |-> value, unit |-> unit,
     flag |-> "INTEGER"]

number(value, flag) == [type |-> "NumberToken", value |-> value, flag |-> flag]

int(value) == number(value, "INTEGER")

func(name, value) == [type |-> "FunctionNode", name |-> name, value |-> value]

customVar(name) == func("var", <<ident(name)>>)

Declaration(name, value, important) ==
    [type |-> "DeclarationNode", name |-> name, value |-> value,
     important |-> important]

decl(name, value) == Declaration(name, value, FALSE)

isValidContainerName(name) ==
    toLowerCase(name) \notin {"none", "and", "not", "or", "normal", "auto"}

RECURSIVE consumeContainerNamesInto(_, _, _)
\* the loop of consumeContainerNames
consumeContainerNamesInto(nodes, index, names) ==
    LET i0 == consumeWhitespace(nodes, index)
        next == at(nodes, consumeWhitespace(nodes, index), 1)
    IN  IF next.type # "IdentToken" THEN Parsed(names, i0)
        ELSE IF ~isValidContainerName(next.value) THEN Parsed(names, i0)
        ELSE consumeContainerNamesInto(nodes, i0 + 1, Append(names, next.value))

\* the return of consumeContainerNames, r being what its loop left
containerNamesOf(nodes, r, expectEof) ==
    IF expectEof /\ at(nodes, r.index, 1).type # "EOFToken"
    THEN Parsed(<<>>, r.index)
    ELSE Parsed(<<r.result>>, r.index)

\* the result is <<>> for null and <<names>> for a list of names
consumeContainerNames(nodes, index, expectEof) ==
    containerNamesOf(nodes, consumeContainerNamesInto(nodes, index, <<>>),
                     expectEof)

\* the container type of the node consumed, the parser being at index
\* after the whitespace that follows it: <<>> for null
containerTypeOf(nodes, node, index) ==
    IF node.type # "IdentToken" \/ at(nodes, index, 1).type # "EOFToken"
    THEN <<>>
    ELSE IF toLowerCase(node.value) \in {"normal", "initial"} THEN <<"Normal">>
    ELSE IF toLowerCase(node.value) = "size" THEN <<"Size">>
    ELSE IF toLowerCase(node.value) = "inline-size" THEN <<"InlineSize">>
    ELSE <<>>

\* consumeContainerType after its first consumeWhitespace
consumeContainerTypeAt(nodes, index) ==
    Parsed(containerTypeOf(nodes, at(nodes, index, 1),
                           consumeWhitespace(nodes, index + 1)),
           consumeWhitespace(nodes, index + 1))

\* the result is <<>> for null and <<type>> for a container type
consumeContainerType(nodes, index) ==
    consumeContainerTypeAt(nodes, consumeWhitespace(nodes, index))

parseContainerNameProperty(nodes) ==
    consumeContainerNames(nodes, ParserStart, TRUE).result

parseContainerTypeProperty(nodes) ==
    consumeContainerType(nodes, ParserStart).result

\* consumeMaybeSeparatedByDelim with consumeContainerNames and
\* consumeContainerType: <<>> for null, <<[names, type]>> otherwise, type
\* being <<>> for null
\* consumeMaybeSeparatedByDelim after the delimiter: second is what
\* consumeContainerType returned
afterDelim(nodes, first, second) ==
    IF at(nodes, consumeWhitespace(nodes, second.index), 1).type # "EOFToken"
    THEN <<>>
    ELSE <<[names |-> first.result, type |-> second.result]>>

\* consumeMaybeSeparatedByDelim after its first part: next is the node at
\* index, which follows the whitespace after the first part
afterFirst(nodes, delimValue, first, index, next) ==
    IF first.result = <<>> THEN <<>>
    ELSE IF next.type = "DelimToken"
    THEN IF next.value # delimValue THEN <<>>
         ELSE afterDelim(nodes, first,
                         consumeContainerType(
                             nodes, consumeWhitespace(nodes, index + 1)))
    ELSE IF next.type # "EOFToken" THEN <<>>
    ELSE <<[names |-> first.result, type |-> <<>>]>>

afterFirstAt(nodes, delimValue, first, index) ==
    afterFirst(nodes, delimValue, first, index, at(nodes, index, 1))

afterNames(nodes, delimValue, first) ==
    afterFirstAt(nodes, delimValue, first, consumeWhitespace(nodes, first.index))

consumeNamesMaybeSeparatedByDelimType(nodes, delimValue) ==
    afterNames(nodes, delimValue,
               consumeContainerNames(nodes, ParserStart, FALSE))

\* result === null || result[0] === null ? null : result
shorthandOf(result) ==
    IF result = <<>> THEN <<>>
    ELSE IF result[1].names = <<>> THEN <<>>
    ELSE result

parseContainerShorthand(nodes) ==
    shorthandOf(consumeNamesMaybeSeparatedByDelimType(nodes, "/"))

transformContainerDimensions(node) ==
    IF node.unit \notin {"cqw", "cqh", "cqi", "cqb", "cqmin", "cqmax"}
    THEN node
    ELSE func("calc",
              <<number(node.value, node.flag), delim("*"),
                IF node.unit \in {"cqw", "cqh", "cqi", "cqb"}
                THEN customVar(CUSTOM_UNIT_MAP[node.unit])
                ELSE func(IF node.unit = "cqmin" THEN "min" ELSE "max",
                          <<customVar(CUSTOM_UNIT_MAP["cqi"]), CommaToken,
                            customVar(CUSTOM_UNIT_MAP["cqb"])>>)>>)

RECURSIVE transformContainerUnits(_)
transformContainerUnits(nodes) ==
    [k \in 1..Len(nodes) |->
        IF nodes[k].type = "DimensionToken"
        THEN transformContainerDimensions(nodes[k])
        ELSE IF nodes[k].type = "FunctionNode"
        THEN [nodes[k] EXCEPT !.value = transformContainerUnits(@)]
        ELSE nodes[k]]

transformPropertyDeclaration(node) ==
    IF node.name = "container"
    THEN IF parseContainerShorthand(node.value) # <<>>
         THEN [node EXCEPT !.name = CUSTOM_PROPERTY_SHORTHAND] ELSE node
    ELSE IF node.name = "container-name"
    THEN IF parseContainerNameProperty(node.value) # <<>>
         THEN [node EXCEPT !.name = CUSTOM_PROPERTY_NAME] ELSE node
    ELSE IF node.name = "container-type"
    THEN IF parseContainerTypeProperty(node.value) # <<>>
         THEN [node EXCEPT !.name = CUSTOM_PROPERTY_TYPE] ELSE node
    ELSE [node EXCEPT !.value = transformContainerUnits(@)]

\* transformAtRule on an at-rule of a declaration list: the rule it returns
transformAtRuleOfList(declaration) == [declaration EXCEPT !.visited = TRUE]

\* one turn of the loop of transformDeclarationBlock; acc holds declarations,
\* containerNames and containerType, the last two <<>> for null
\* the assignments of the case of the shorthand
takeShorthand(acc, result) ==
    IF result # <<>>
    THEN [acc EXCEPT !.containerNames = result[1].names,
                     !.containerType = result[1].type]
    ELSE acc

\* the assignment of the case of the name
takeNames(acc, result) ==
    IF result # <<>> THEN [acc EXCEPT !.containerNames = result] ELSE acc

\* the assignment of the case of the type
takeType(acc, result) ==
    IF result # <<>> THEN [acc EXCEPT !.containerType = result] ELSE acc

\* the switch on the name of the new declaration
switchOnName(acc, declaration, newDeclaration) ==
    IF newDeclaration.name = CUSTOM_PROPERTY_SHORTHAND
    THEN takeShorthand(acc, parseContainerShorthand(declaration.value))
    ELSE IF newDeclaration.name = CUSTOM_PROPERTY_NAME
    THEN takeNames(acc, parseContainerNameProperty(declaration.value))
    ELSE IF newDeclaration.name = CUSTOM_PROPERTY_TYPE
    THEN takeType(acc, parseContainerTypeProperty(declaration.value))
    ELSE [acc EXCEPT !.declarations = Append(@, newDeclaration)]

transformDeclaration(acc, declaration) ==
    IF declaration.type = "AtRuleNode"
    THEN [acc EXCEPT !.declarations =
                         Append(@, transformAtRuleOfList(declaration))]
    ELSE switchOnName(acc, declaration,
                      transformPropertyDeclaration(declaration))

RECURSIVE transformDeclarations(_, _, _)
\* the loop of transformDeclarationBlock from entry k on
transformDeclarations(acc, list, k) ==
    IF k > Len(list) THEN acc
    ELSE transformDeclarations(transformDeclaration(acc, list[k]), list, k + 1)

RECURSIVE containerNameNodes(_, _)
\* the names from the i-th on as identifiers with whitespace between them
containerNameNodes(containerNames, i) ==
    IF i > Len(containerNames) THEN <<>>
    ELSE <<ident(containerNames[i])>>
             \o (IF i + 1 <= Len(containerNames) THEN <<WhitespaceToken>>
                 ELSE <<>>)
             \o containerNameNodes(containerNames, i + 1)

\* the value of the contain declaration of a container type
containValue(containerType) ==
    IF containerType = "Normal" THEN <<ident("initial")>>
    ELSE (IF containerType = "Size" THEN <<ident("size"), WhitespaceToken>>
          ELSE <<>>)
             \o <<ident("layout"), WhitespaceToken, ident("style")>>

\* the declarations after the loop: those pushed, and those of the names
\* and the type that were parsed
declarationsAfterLoop(acc) ==
    acc.declarations
        \o (IF acc.containerNames # <<>>
            THEN <<decl(CUSTOM_PROPERTY_NAME,
                        containerNameNodes(acc.containerNames[1], 1))>>
            ELSE <<>>)
        \o (IF acc.containerType # <<>>
            THEN <<decl("contain", containValue(acc.containerType[1])),
                   decl(CUSTOM_PROPERTY_TYPE, <<int(acc.containerType[1])>>)>>
            ELSE <<>>)

\* the list of declarations of the block transformDeclarationBlock returns
transformDeclarationBlock(list) ==
    declarationsAfterLoop(
        transformDeclarations(
            [declarations |-> <<>>, containerNames |-> <<>>,
             containerType |-> <<>>], list, 1))

\* the values of the declarations of the model, by property
DeclarationValues(name) ==
    CASE name = "width" ->
             {<<dimension("1", "cqw")>>, <<dimension("2", "px")>>,
              <<func("min", <<dimension("1", "cqmin"), CommaToken,
                               dimension("2", "px")>>)>>}
      [] name = "container" ->
             {<<ident("a")>>, <<ident("a"), delim("/"), ident("size")>>,
              <<ident("none")>>, <<dimension("1", "cqw")>>}
      [] name = "container-name" ->
             {<<ident("a")>>, <<ident("a"), WhitespaceToken, ident("b")>>,
              <<ident("none")>>, <<dimension("1", "cqw")>>}
      [] name = "container-type" ->
             {<<ident("size")>>, <<ident("normal")>>, <<ident("a")>>,
              <<dimension("1", "cqw")>>}
      [] name = CUSTOM_PROPERTY_NAME -> {<<ident("a")>>}
      [] name = CUSTOM_PROPERTY_TYPE -> {<<int("Size")>>}
      [] name = "contain" ->
             {<<ident("size"), WhitespaceToken, ident("layout"),
                WhitespaceToken, ident("style")>>}

\* the properties an author writes, and those of a transformed stylesheet
AuthoredProperties == {"width", "container", "container-name", "container-type"}
TransformedProperties == {CUSTOM_PROPERTY_NAME, CUSTOM_PROPERTY_TYPE, "contain"}

AtRuleOfList ==
    [type |-> "AtRuleNode", name |-> "media", prelude |-> <<ident("all")>>,
     visited |-> FALSE]

DeclarationListEntries ==
    UNION {{Declaration(name, value, important) :
                value \in DeclarationValues(name), important \in BOOLEAN} :
               name \in AuthoredProperties}
    \cup UNION {{decl(name, value) : value \in DeclarationValues(name)} :
                    name \in TransformedProperties}
    \cup {AtRuleOfList}

DeclarationLists ==
    UNION {[1..n -> DeclarationListEntries] : n \in 0..MaxDeclarations}

InitDeclarations ==
    /\ EngineUnused
    /\ SelectorUnused
    /\ TransformUnused
    /\ SheetsUnused
    /\ ConditionUnused
    /\ ResizeUnused
    /\ TreeUnused
    /\ DisplayUnused
    /\ chainStyles = <<>> /\ chainStates = <<>>
    /\ sfInput = DefaultStyle /\ sfOutput = <<>>
    /\ declInput = <<>>
    /\ declOutput = <<>>

notDeclVars ==
    <<engineVars, chainStyles, chainStates, sfInput, sfOutput, selVars,
      transformVars, sheetVars, condVars, resizeVars, treeVars, displayVars>>

\* transformStyleRule on one style rule: transformDeclarationBlock on its
\* declaration list
ApplyTransformDeclarationBlock ==
    /\ declOutput = <<>>
    /\ \E list \in DeclarationLists :
           /\ declInput' = list
           /\ declOutput' = <<transformDeclarationBlock(list)>>
    /\ UNCHANGED notDeclVars

NextDeclarations == ApplyTransformDeclarationBlock

SpecDeclarations == InitDeclarations /\ [][NextDeclarations]_vars

\* a container, container-name or container-type declaration whose value
\* parses
IsParsedContainerDeclaration(declaration) ==
    \/ /\ declaration.name = "container"
       /\ parseContainerShorthand(declaration.value) # <<>>
    \/ /\ declaration.name = "container-name"
       /\ parseContainerNameProperty(declaration.value) # <<>>
    \/ /\ declaration.name = "container-type"
       /\ parseContainerTypeProperty(declaration.value) # <<>>

\* the declarations of the list that the block is to keep
IsKeptDeclaration(entry) ==
    entry.type = "DeclarationNode" /\ ~IsParsedContainerDeclaration(entry)

IsContainerUnit(node) ==
    /\ node.type = "DimensionToken"
    /\ node.unit \in {"cqw", "cqh", "cqi", "cqb", "cqmin", "cqmax"}

RECURSIVE HoldsContainerUnit(_)
HoldsContainerUnit(nodes) ==
    \E k \in 1..Len(nodes) :
        \/ IsContainerUnit(nodes[k])
        \/ nodes[k].type = "FunctionNode" /\ HoldsContainerUnit(nodes[k].value)

\* kept as it is: name and important flag the same, and the value the same
\* unless it holds a container unit
KeptAs(declaration, emitted) ==
    /\ emitted.type = "DeclarationNode"
    /\ emitted.name = declaration.name
    /\ emitted.important = declaration.important
    /\ \/ emitted.value = declaration.value
       \/ /\ declaration.name \notin {"container", "container-name", "container-type"}
          /\ HoldsContainerUnit(declaration.value)
          /\ Len(emitted.value) = Len(declaration.value)
          /\ \A k \in 1..Len(declaration.value) :
                 \/ emitted.value[k] = declaration.value[k]
                 \/ declaration.value[k].type \in {"DimensionToken", "FunctionNode"}

\* strictly increasing positions of the output, one for each kept declaration
EmittedInOrder(kept, output) ==
    \E positions \in [1..Len(kept) -> 1..Len(output)] :
        /\ \A k \in 1..Len(kept) : KeptAs(kept[k], output[positions[k]])
        /\ \A k \in 1..(Len(kept) - 1) : positions[k] < positions[k + 1]

KeptDeclarations ==
    SelectSeq(declInput, IsKeptDeclaration)

\* C32: every declaration of the list that is not a container,
\* container-name or container-type declaration whose value parses is in the
\* list returned, in the order of the input, with its name and its important
\* flag, and with its value but for the container units in it; a container
\* declaration whose value does not parse is kept with its value as it is.
C32_OtherDeclarationsPassThroughInOrder ==
    declOutput # <<>> => EmittedInOrder(KeptDeclarations, declOutput[1])

============================================================================
